---- MODULE Spec2Model ----
(***************************************************************************)
(* The tool framework of IntellisyncCRM: ToolRegistry (tools/registry.py), *)
(* ToolManager (tools/manager.py), ToolResult / ToolError (tools/base.py)  *)
(* and TemplateEngineTool (tools/document/template_engine.py).             *)
(*                                                                         *)
(* Python values are modelled as follows.  A dict is a sequence of         *)
(* [k, v] entries in insertion order.  None is the record None.  Strings   *)
(* that the code inspects character by character (input keys, templates)   *)
(* are sequences of one-character strings; all other strings are TLA+      *)
(* strings.  uuid4() and datetime.now() are read off the counter `now`.    *)
(***************************************************************************)
EXTENDS Integers, Sequences, FiniteSets, TLC

VARIABLES
    tools,              \* ToolRegistry._tools: dict name -> Tool instance
    created,            \* number of Tool objects built by register_tool_class
    reg_ret,            \* outcome of the last registry call seen by its caller
    registered,         \* history variable: successful registrations not removed since
    execution_history,  \* ToolManager.execution_history
    now,                \* counter behind uuid4() and datetime.now()
    tool_state,         \* per Tool instance: number of entries its execute() stored
    tasks,              \* the execute_tool coroutines of the call in progress
    call,               \* the manager call in progress or last returned
    ret,                \* what the last manager call returned to its caller
    tpl_in,             \* input_data handed to TemplateEngineTool.execute
    tpl_out,            \* its outcome
    template_cache,     \* TemplateEngineTool.template_cache
    tpl_run,            \* a running _process_template: its pass and its template
    txt_in,             \* argument of the last TextAnalysisTool method called
    txt_out,            \* what it returned
    api,                \* the OpenAIClient._make_request call: its locals and its log
    tool_cache_size,    \* TemplateEngineTool.template_cache_size
    objects,            \* the mapping objects of execute_tool calls, by reference
    orchestrated_agents, \* table orchestrated_agents: agent_id -> row
    agent_states,       \* table agent_states: agent_id -> row
    agent_tasks,        \* table agent_tasks: task_id -> row
    monitors,           \* the monitor_agent task of each agent: its position and its polls
    init_tasks,         \* the initialize_agent_process task of each agent
    svc_response        \* what the last endpoint call of a service returned or raised

regVars == <<tools, created, reg_ret, registered>>
mgrVars == <<execution_history, now, tool_state, tasks, call, ret>>
tplVars == <<tpl_in, tpl_out, template_cache, tpl_run>>
txtVars == <<txt_in, txt_out>>
apiVars == <<api>>
svcVars == <<orchestrated_agents, agent_states, agent_tasks, monitors, init_tasks, svc_response>>
restVars == <<tool_cache_size, objects, orchestrated_agents, agent_states, agent_tasks,
              monitors, init_tasks, svc_response>>
vars == <<tools, created, reg_ret, registered, execution_history, now,
          tool_state, tasks, call, ret, tpl_in, tpl_out, template_cache, tpl_run,
          txt_in, txt_out, api, tool_cache_size, objects, orchestrated_agents,
          agent_states, agent_tasks, monitors, init_tasks, svc_response>>

None == [type |-> "NoneType"]

(***************************************************************************)
(* Python dict: insertion-ordered, unique keys.                            *)
(***************************************************************************)
DictKeys(d) == [i \in 1..Len(d) |-> d[i].k]

DictHas(d, key) == \E i \in 1..Len(d) : d[i].k = key

DictGet(d, key) == d[CHOOSE i \in 1..Len(d) : d[i].k = key].v

\* d[key] = value: an existing key keeps its position, a new key goes last
DictSet(d, key, value) ==
    IF DictHas(d, key)
    THEN [i \in 1..Len(d) |-> IF d[i].k = key THEN [k |-> key, v |-> value] ELSE d[i]]
    ELSE Append(d, [k |-> key, v |-> value])

\* del d[key]
DictDel(d, key) == SelectSeq(d, LAMBDA e : e.k # key)

(***************************************************************************)
(* ToolError (base.py)                                                     *)
(***************************************************************************)
ToolError(message, code, details) ==
    [type |-> "ToolError", message |-> message, code |-> code, details |-> details]

NoDetails == <<>>

(***************************************************************************)
(* ToolRegistry (registry.py).  Each method is an operator from the        *)
(* registry's dict to [raised, tools, value]: the exception raised (None   *)
(* when it returns), the dict afterwards and the value returned.           *)
(***************************************************************************)
ToolNames == {"a", "b", "c"}

MaxInst == 2
MaxCreate == 2

\* Tool objects the callers of register_tool hold
PoolInstances == {[cls |-> "Tool", id |-> i] : i \in 1..MaxInst}

\* classes handed to register_tool_class
ToolClasses == {"TemplateEngineTool", "CalendarOperationsTool"}

\* Tool.__init__: the object tool_class(config=config) builds
NewInstance(tool_class, n) == [cls |-> tool_class, id |-> MaxInst + n + 1]

\* mutant: a registration under a taken name overwrites instead of failing
register_tool_overwrite(t, tool_name, tool_instance) ==
    [raised |-> None, tools |-> DictSet(t, tool_name, tool_instance), value |-> None]

register_tool(t, tool_name, tool_instance) ==
    IF DictHas(t, tool_name)
    THEN [raised |-> ToolError(<<"already registered", tool_name>>, "DUPLICATE_TOOL", NoDetails),
          tools |-> t, value |-> None]
    ELSE [raised |-> None, tools |-> DictSet(t, tool_name, tool_instance), value |-> None]

\* ctor_ok: whether tool_class(config=config) returns (the repository's tool
\* constructors raise AttributeError on config = None)
register_tool_class(t, tool_name, tool_class, ctor_ok, n) ==
    IF DictHas(t, tool_name)
    THEN [raised |-> ToolError(<<"already registered", tool_name>>, "DUPLICATE_TOOL", NoDetails),
          tools |-> t, value |-> None]
    ELSE IF ctor_ok
    THEN [raised |-> None,
          tools |-> DictSet(t, tool_name, NewInstance(tool_class, n)),
          value |-> NewInstance(tool_class, n)]
    ELSE [raised |-> ToolError(<<"Failed to instantiate tool", tool_name>>,
                               "TOOL_INSTANTIATION_ERROR",
                               <<[k |-> "tool_class", v |-> tool_class]>>),
          tools |-> t, value |-> None]

get_tool(t, tool_name) ==
    IF ~DictHas(t, tool_name)
    THEN [raised |-> ToolError(<<"not found in registry", tool_name>>, "TOOL_NOT_FOUND", NoDetails),
          tools |-> t, value |-> None]
    ELSE [raised |-> None, tools |-> t, value |-> DictGet(t, tool_name)]

\* mutant: removing a name moves the last entry into its slot (no order kept)
unregister_tool_swap(t, tool_name) ==
    IF ~DictHas(t, tool_name)
    THEN [raised |-> ToolError(<<"Cannot unregister tool", tool_name>>, "TOOL_NOT_FOUND", NoDetails),
          tools |-> t, value |-> None]
    ELSE LET i == CHOOSE j \in 1..Len(t) : t[j].k = tool_name
             moved == [j \in 1..Len(t) |-> IF j = i THEN t[Len(t)] ELSE t[j]]
         IN [raised |-> None, tools |-> SubSeq(moved, 1, Len(t) - 1), value |-> None]

unregister_tool(t, tool_name) ==
    IF ~DictHas(t, tool_name)
    THEN [raised |-> ToolError(<<"Cannot unregister tool", tool_name>>, "TOOL_NOT_FOUND", NoDetails),
          tools |-> t, value |-> None]
    ELSE [raised |-> None, tools |-> DictDel(t, tool_name), value |-> None]

list_tools(t) == [raised |-> None, tools |-> t, value |-> DictKeys(t)]

clear(t) == [raised |-> None, tools |-> <<>>, value |-> None]

\* what the caller of a registry method observes
RegRet(op, name, arg, r) ==
    [op |-> op, name |-> name, arg |-> arg, raised |-> r.raised, value |-> r.value]

NoRet == [op |-> "none", name |-> "", arg |-> None, raised |-> None, value |-> None]

(***************************************************************************)
(* Registry calls as actions.  `registered` follows the calls from the     *)
(* outside: a registration that returned adds the pair, an unregistration  *)
(* that returned removes the name, clear() removes all.                    *)
(***************************************************************************)
RegisterTool(tool_name, tool_instance) ==
    LET r == register_tool(tools, tool_name, tool_instance) IN
    /\ tools' = r.tools
    /\ reg_ret' = RegRet("register_tool", tool_name, tool_instance, r)
    /\ registered' = IF r.raised = None
                     THEN Append(registered, [k |-> tool_name, v |-> tool_instance])
                     ELSE registered
    /\ UNCHANGED created

RegisterToolClass(tool_name, tool_class, ctor_ok) ==
    LET r == register_tool_class(tools, tool_name, tool_class, ctor_ok, created) IN
    /\ tools' = r.tools
    /\ reg_ret' = RegRet("register_tool_class", tool_name, [cls |-> tool_class, id |-> 0], r)
    /\ created' = IF r.raised = None THEN created + 1 ELSE created
    /\ registered' = IF r.raised = None
                     THEN Append(registered, [k |-> tool_name, v |-> r.value])
                     ELSE registered

GetTool(tool_name) ==
    LET r == get_tool(tools, tool_name) IN
    /\ tools' = r.tools
    /\ reg_ret' = RegRet("get_tool", tool_name, None, r)
    /\ UNCHANGED <<created, registered>>

UnregisterTool(tool_name) ==
    LET r == unregister_tool(tools, tool_name) IN
    /\ tools' = r.tools
    /\ reg_ret' = RegRet("unregister_tool", tool_name, None, r)
    /\ registered' = IF r.raised = None
                     THEN SelectSeq(registered, LAMBDA e : e.k # tool_name)
                     ELSE registered
    /\ UNCHANGED created

ListTools ==
    LET r == list_tools(tools) IN
    /\ tools' = r.tools
    /\ reg_ret' = RegRet("list_tools", "", None, r)
    /\ UNCHANGED <<created, registered>>

Clear ==
    LET r == clear(tools) IN
    /\ tools' = r.tools
    /\ reg_ret' = RegRet("clear", "", None, r)
    /\ registered' = <<>>
    /\ UNCHANGED created

\* no _make_request call has been made
NoRequest == [pc |-> "idle", max_retries |-> 0, attempts |-> 0, requests |-> <<>>,
              sleeps |-> <<>>, last_error |-> None, outcome |-> None]

\* _process_template is not running
NoRun == [pc |-> "idle", source |-> <<>>, template |-> <<>>, data |-> <<>>, iteration |-> 0]

NoCall == [kind |-> "none", requests |-> <<>>, status |-> "returned"]

\* the agents and the tasks of the two services' tables, and a key without a row
Agents == {"a1", "a2"}
TaskIds == {"t1", "t2"}
NoRow == [absent |-> TRUE]
NoMonitor == [pc |-> "none", polls |-> 0]

\* TemplateEngineTool.__init__: the default of config["template_cache_size"]
template_cache_size == 50

Init ==
    /\ tools = <<>>
    /\ created = 0
    /\ reg_ret = NoRet
    /\ registered = <<>>
    /\ execution_history = <<>>
    /\ now = 0
    /\ tool_state = [i \in PoolInstances |-> 0]
    /\ tasks = <<>>
    /\ call = NoCall
    /\ ret = None
    /\ tpl_in = None
    /\ tpl_out = None
    /\ template_cache = <<>>
    /\ tpl_run = NoRun
    /\ txt_in = None
    /\ txt_out = None
    /\ api = NoRequest
    /\ tool_cache_size = template_cache_size
    /\ objects = <<>>
    /\ orchestrated_agents = [agent_id \in Agents |-> NoRow]
    /\ agent_states = [agent_id \in Agents |-> NoRow]
    /\ agent_tasks = [task_id \in TaskIds |-> NoRow]
    /\ monitors = [agent_id \in Agents |-> NoMonitor]
    /\ init_tasks = [agent_id \in Agents |-> "none"]
    /\ svc_response = None

NextReg ==
    \/ \E n \in ToolNames, i \in PoolInstances :
          RegisterTool(n, i) /\ UNCHANGED <<mgrVars, tplVars, txtVars, apiVars, restVars>>
    \/ \E n \in ToolNames, c \in ToolClasses, ok \in BOOLEAN :
          /\ created < MaxCreate
          /\ RegisterToolClass(n, c, ok) /\ UNCHANGED <<mgrVars, tplVars, txtVars, apiVars, restVars>>
    \/ \E n \in ToolNames : GetTool(n) /\ UNCHANGED <<mgrVars, tplVars, txtVars, apiVars, restVars>>
    \/ \E n \in ToolNames : UnregisterTool(n) /\ UNCHANGED <<mgrVars, tplVars, txtVars, apiVars, restVars>>
    \/ ListTools /\ UNCHANGED <<mgrVars, tplVars, txtVars, apiVars, restVars>>
    \/ Clear /\ UNCHANGED <<mgrVars, tplVars, txtVars, apiVars, restVars>>

SpecReg == Init /\ [][NextReg]_vars

(***************************************************************************)
(* ToolResult (base.py)                                                    *)
(***************************************************************************)
SUCCESS == "success"
ERROR == "error"
PARTIAL == "partial"

\* ToolResult.__init__ at time t: id is a fresh uuid, timestamp is now()
ToolResult(status, data, error, execution_time, metadata, t) ==
    [type |-> "ToolResult", id |-> t, status |-> status, data |-> data, error |-> error,
     execution_time |-> execution_time, metadata |-> metadata, timestamp |-> t]

\* ToolResult.to_dict; "error" and "execution_time" are optional keys
to_dict(self) ==
    <<[k |-> "id", v |-> self.id], [k |-> "status", v |-> self.status],
      [k |-> "data", v |-> self.data], [k |-> "timestamp", v |-> self.timestamp],
      [k |-> "metadata", v |-> self.metadata]>>
    \o (IF self.error # None
        THEN <<[k |-> "error", v |-> <<[k |-> "message", v |-> self.error.message],
                                       [k |-> "code", v |-> self.error.code],
                                       [k |-> "details", v |-> self.error.details]>>]>>
        ELSE <<>>)
    \o (IF self.execution_time # None
        THEN <<[k |-> "execution_time", v |-> self.execution_time]>>
        ELSE <<>>)

(***************************************************************************)
(* Strings the code looks into are sequences of characters.                *)
(***************************************************************************)
UpperCase == <<"A", "B", "C", "D", "E", "F", "G", "H", "I", "J", "K", "L", "M",
               "N", "O", "P", "Q", "R", "S", "T", "U", "V", "W", "X", "Y", "Z">>
LowerCase == <<"a", "b", "c", "d", "e", "f", "g", "h", "i", "j", "k", "l", "m",
               "n", "o", "p", "q", "r", "s", "t", "u", "v", "w", "x", "y", "z">>

\* str.lower()
lower(str) ==
    [i \in 1..Len(str) |->
        IF \E j \in 1..Len(UpperCase) : UpperCase[j] = str[i]
        THEN LowerCase[CHOOSE j \in 1..Len(UpperCase) : UpperCase[j] = str[i]]
        ELSE str[i]]

\* sub in str
StrIn(sub, str) ==
    \E i \in 0..(Len(str) - Len(sub)) : SubSeq(str, i + 1, i + Len(sub)) = sub

(***************************************************************************)
(* ToolManager (manager.py)                                                *)
(***************************************************************************)
max_history_size == 100

\* Python values: a [type, payload] record, the payload under a field of its
\* own per type (strings are sequences of characters)
PyStr(chars) == [type |-> "str", s |-> chars]
PyInt(n) == [type |-> "int", n |-> n]
PyFloat(f) == [type |-> "float", f |-> f]
PyBool(b) == [type |-> "bool", b |-> b]
PyList(items) == [type |-> "list", items |-> items]
PyDict(d) == [type |-> "dict", d |-> d]

REDACTED == <<"[", "R", "E", "D", "A", "C", "T", "E", "D", "]">>

sensitive_fields ==
    << <<"p","a","s","s","w","o","r","d">>, <<"a","p","i","_","k","e","y">>,
       <<"t","o","k","e","n">>, <<"s","e","c","r","e","t">>,
       <<"c","r","e","d","e","n","t","i","a","l">>, <<"a","u","t","h">>,
       <<"p","r","i","v","a","t","e">>, <<"k","e","y">>,
       <<"c","e","r","t","i","f","i","c","a","t","e">>, <<"s","s","n">>,
       <<"s","o","c","i","a","l","_","s","e","c","u","r","i","t","y">>,
       <<"c","r","e","d","i","t","_","c","a","r","d">>,
       <<"c","a","r","d","_","n","u","m","b","e","r">>,
       <<"c","v","v">>, <<"p","i","n">> >>

\* mutant: the key is matched as written, without lower()
IsSensitive_case_sensitive(key) ==
    \E n \in 1..Len(sensitive_fields) : StrIn(sensitive_fields[n], key)

\* any(sensitive in key.lower() for sensitive in sensitive_fields)
IsSensitive(key) ==
    \E n \in 1..Len(sensitive_fields) : StrIn(sensitive_fields[n], lower(key))

\* _sanitize_data: a shallow copy with the values of sensitive keys replaced
sanitize_data(data) ==
    [i \in 1..Len(data) |->
        IF IsSensitive(data[i].k)
        THEN [k |-> data[i].k, v |-> PyStr(REDACTED)]
        ELSE data[i]]

\* mutant: the slice keeps the first max_history_size records, not the last
record_execution_keep_first(history, tool_name, input_data, result) ==
    LET execution_record == [tool_name |-> tool_name,
                             input_data |-> sanitize_data(input_data),
                             result |-> to_dict(result),
                             timestamp |-> result.timestamp]
        appended == Append(history, execution_record)
    IN IF Len(appended) > max_history_size
       THEN SubSeq(appended, 1, max_history_size)
       ELSE appended

\* mutant: the history is not limited
record_execution_no_limit(history, tool_name, input_data, result) ==
    Append(history, [tool_name |-> tool_name,
                     input_data |-> sanitize_data(input_data),
                     result |-> to_dict(result),
                     timestamp |-> result.timestamp])

\* _record_execution: the history after recording one execution
record_execution(history, tool_name, input_data, result) ==
    LET execution_record == [tool_name |-> tool_name,
                             input_data |-> sanitize_data(input_data),
                             result |-> to_dict(result),
                             timestamp |-> result.timestamp]
        appended == Append(history, execution_record)
    IN IF Len(appended) > max_history_size
       THEN SubSeq(appended, Len(appended) - max_history_size + 1, Len(appended))
       ELSE appended

\* mutant: the `except Exception` clause is missing; other exceptions propagate
error_result_tool_errors_only(tool_name, e, t) ==
    IF e.type = "ToolError"
    THEN ToolResult(ERROR, <<>>, e, PyInt(0), <<[k |-> "tool_name", v |-> tool_name]>>, t)
    ELSE e

\* mutant: the `except Exception` clause builds its result without the error
error_result_no_error(tool_name, e, t) ==
    IF e.type = "ToolError"
    THEN ToolResult(ERROR, <<>>, e, PyInt(0), <<[k |-> "tool_name", v |-> tool_name]>>, t)
    ELSE ToolResult(ERROR, <<>>, None, PyInt(0), <<[k |-> "tool_name", v |-> tool_name]>>, t)

\* the except clauses of execute_tool (manager.py 73-100): the ERROR result
\* built at time t for an exception e raised in the try block.  Every e is a
\* ToolError or another subclass of Exception, so one of the clauses takes it;
\* a value that is no ToolResult would stand for e propagating to the caller.
error_result(tool_name, e, t) ==
    IF e.type = "ToolError"
    THEN ToolResult(ERROR, <<>>, e, PyInt(0), <<[k |-> "tool_name", v |-> tool_name]>>, t)
    ELSE ToolResult(ERROR, <<>>,
                    ToolError(<<"Failed to execute tool", tool_name, e.message>>,
                              "TOOL_EXECUTION_ERROR",
                              <<[k |-> "error_type", v |-> e.type]>>),
                    PyInt(0), <<[k |-> "tool_name", v |-> tool_name]>>, t)

(***************************************************************************)
(* execute_tool is a coroutine: it runs up to `await tool.validate_input`, *)
(* up to `await tool.execute`, and to its end.  A task is one running      *)
(* execute_tool; v_out and e_out log what the tool's validate_input and    *)
(* execute did for it ("none": not called or not finished).                *)
(***************************************************************************)
ValidateOutcomes == {"true", "false", "tool_error", "exception"}
ExecuteOutcomes == {"success", "timed", "tool_error", "exception"}

NewTask(tool_name, input_data) ==
    [tool_name |-> tool_name, input_data |-> input_data, pc |-> "start",
     tool |-> None, result |-> None, v_out |-> "none", e_out |-> "none"]

\* a ToolError raised by a tool itself (MISSING_TEXT, MISSING_OPERATION, ...)
ToolRaised == ToolError(<<"raised by the tool">>, "TOOL_SPECIFIC", NoDetails)

\* any exception raised by a tool that is not a ToolError
OtherRaised == [type |-> "ValueError", message |-> "unexpected"]

\* mutant: fail fast, an ERROR result ends the unfinished sibling tasks with it
FinishFailFast(i, result, tk) ==
    /\ tasks' = [j \in 1..Len(tasks) |->
                    IF j = i THEN [tk EXCEPT !.pc = "done", !.result = result]
                    ELSE IF result.status = "error" /\ tasks[j].pc # "done"
                    THEN [tasks[j] EXCEPT !.pc = "done", !.result = result]
                    ELSE tasks[j]]
    /\ execution_history' =
          record_execution(execution_history, tk.tool_name, tk.input_data, result)
    /\ now' = now + 1

\* mutant: only the successful executions are recorded
FinishSuccessOnly(i, result, tk) ==
    /\ tasks' = [tasks EXCEPT ![i] = [tk EXCEPT !.pc = "done", !.result = result]]
    /\ execution_history' =
          IF result.status = SUCCESS
          THEN record_execution(execution_history, tk.tool_name, tk.input_data, result)
          ELSE execution_history
    /\ now' = now + 1

\* the task ends: its result is recorded and returned (manager.py 69-71,
\* 82-83, 99-100)
Finish(i, result, tk) ==
    /\ tasks' = [tasks EXCEPT ![i] = [tk EXCEPT !.pc = "done", !.result = result]]
    /\ execution_history' =
          record_execution(execution_history, tk.tool_name, tk.input_data, result)
    /\ now' = now + 1

\* exception e is raised inside the try block of task i
Raise(i, e, tk) ==
    LET result == error_result(tk.tool_name, e, now + 1) IN
    IF result.type = "ToolResult"
    THEN Finish(i, result, tk)
    ELSE /\ tasks' = [tasks EXCEPT ![i] = [tk EXCEPT !.pc = "raised", !.result = e]]
         /\ UNCHANGED <<execution_history, now>>

\* mutant: the result of validate_input is not looked at
validate_raises_unchecked(v, tool_name) ==
    CASE v \in {"true", "false"} -> None
      [] v = "tool_error" -> ToolError(<<"raised by the tool">>, "TOOL_SPECIFIC", NoDetails)
      [] v = "exception" -> [type |-> "ValueError", message |-> "unexpected"]

\* what `await tool.validate_input` and the check of is_valid raise
\* (manager.py 52-57); None: nothing, execute_tool goes on
validate_raises(v, tool_name) ==
    CASE v = "true" -> None
      [] v = "false" -> ToolError(<<"Invalid input for tool", tool_name>>,
                                  "INVALID_TOOL_INPUT", NoDetails)
      [] v = "tool_error" -> ToolRaised
      [] v = "exception" -> OtherRaised

\* execute_tool up to the call of validate_input (manager.py 48-52)
TaskStart(i) ==
    /\ i \in 1..Len(tasks)
    /\ tasks[i].pc = "start"
    /\ LET found == get_tool(tools, tasks[i].tool_name) IN
       IF found.raised # None
       THEN /\ Raise(i, found.raised, tasks[i])
            /\ UNCHANGED tool_state
       ELSE /\ tasks' = [tasks EXCEPT ![i].pc = "validating", ![i].tool = found.value]
            /\ UNCHANGED <<execution_history, now, tool_state>>
    /\ UNCHANGED <<call, ret>>

\* validate_input comes back with v; execute_tool runs up to the call of execute
\* (manager.py 52-61)
TaskValidated(i, v) ==
    /\ i \in 1..Len(tasks)
    /\ tasks[i].pc = "validating"
    /\ LET tk == [tasks[i] EXCEPT !.v_out = v]
           raised == validate_raises(v, tk.tool_name)
       IN IF raised = None
          THEN /\ tasks' = [tasks EXCEPT ![i] = [tk EXCEPT !.pc = "executing"]]
               /\ UNCHANGED <<execution_history, now>>
          ELSE Raise(i, raised, tk)
    /\ UNCHANGED <<tool_state, call, ret>>

\* execute comes back with e; execute_tool runs to its end (manager.py 61-100).
\* "success": the tool stored an entry and returns a SUCCESS result without
\* execution_time; "timed": it returns a SUCCESS result with execution_time set.
TaskExecuted(i, e) ==
    /\ i \in 1..Len(tasks)
    /\ tasks[i].pc = "executing"
    /\ LET tk == [tasks[i] EXCEPT !.e_out = e]
           made == ToolResult(SUCCESS, <<[k |-> "by", v |-> tk.tool]>>, None,
                              IF e = "timed" THEN PyFloat("tool") ELSE None,
                              <<>>, now + 1)
           result == IF made.execution_time = None
                     THEN [made EXCEPT !.execution_time = PyFloat("measured")]
                     ELSE made
       IN
       CASE e \in {"success", "timed"} ->
              /\ Finish(i, result, tk)
              /\ tool_state' = IF e = "success"
                               THEN [tool_state EXCEPT ![tk.tool] = @ + 1]
                               ELSE tool_state
         [] e = "tool_error" -> Raise(i, ToolRaised, tk) /\ UNCHANGED tool_state
         [] e = "exception" -> Raise(i, OtherRaised, tk) /\ UNCHANGED tool_state
    /\ UNCHANGED <<call, ret>>

Idle == call.status = "returned"

\* await manager.execute_tool(tool_name, input_data)
CallExecuteTool(tool_name, input_data) ==
    /\ Idle
    /\ call' = [kind |-> "execute_tool",
                requests |-> <<[tool_name |-> tool_name, input_data |-> input_data]>>,
                status |-> "running"]
    /\ tasks' = <<NewTask(tool_name, input_data)>>
    /\ ret' = None
    /\ UNCHANGED <<execution_history, now, tool_state>>

ReturnExecuteTool ==
    /\ call.kind = "execute_tool"
    /\ call.status = "running"
    /\ tasks[1].pc \in {"done", "raised"}
    /\ ret' = tasks[1].result
    /\ call' = [call EXCEPT !.status = "returned"]
    /\ UNCHANGED <<execution_history, now, tool_state, tasks>>

\* request.get("tool_name") of a request without the key (or with an empty one)
NoName == ""

\* the tasks list of execute_tools_parallel (manager.py 117-126)
RECURSIVE SpawnTasks(_)
SpawnTasks(tool_requests) ==
    IF tool_requests = <<>> THEN <<>>
    ELSE LET request == Head(tool_requests) IN
         (IF request.tool_name = NoName
          THEN <<>>
          ELSE <<NewTask(request.tool_name, request.input_data)>>)
         \o SpawnTasks(Tail(tool_requests))

\* isinstance(result, Exception): what gather hands back for a task that raised
IsException(result) == result.type \notin {"ToolResult", "NoneType"}

\* the result_map of execute_tools_parallel after n results (manager.py 130-149):
\* results[i] is stored under the name of tool_requests[i]; t is the time
RECURSIVE result_map_upto(_, _, _, _)
result_map_upto(tool_requests, results, n, t) ==
    IF n = 0 THEN <<>>
    ELSE LET tool_name == tool_requests[n].tool_name
             result == IF IsException(results[n])
                       THEN ToolResult(ERROR, <<>>,
                                ToolError(<<"Failed to execute tool", tool_name,
                                            results[n].message>>,
                                          "TOOL_EXECUTION_ERROR",
                                          <<[k |-> "error_type", v |-> results[n].type]>>),
                                None, <<[k |-> "tool_name", v |-> tool_name]>>, t + n)
                       ELSE results[n]
         IN DictSet(result_map_upto(tool_requests, results, n - 1, t), tool_name, result)

result_map(tool_requests, results, t) ==
    result_map_upto(tool_requests, results, Len(results), t)

\* await manager.execute_tools_parallel(tool_requests), up to the gather
CallExecuteToolsParallel(tool_requests) ==
    /\ Idle
    /\ call' = [kind |-> "execute_tools_parallel", requests |-> tool_requests,
                status |-> "running"]
    /\ tasks' = SpawnTasks(tool_requests)
    /\ ret' = None
    /\ UNCHANGED <<execution_history, now, tool_state>>

\* the gather is complete: build the map and return it
ReturnExecuteToolsParallel ==
    /\ call.kind = "execute_tools_parallel"
    /\ call.status = "running"
    /\ \A i \in 1..Len(tasks) : tasks[i].pc \in {"done", "raised"}
    /\ ret' = result_map(call.requests, [i \in 1..Len(tasks) |-> tasks[i].result], now)
    /\ now' = IF \E i \in 1..Len(tasks) : IsException(tasks[i].result)
              THEN now + Len(tasks) ELSE now
    /\ call' = [call EXCEPT !.status = "returned"]
    /\ UNCHANGED <<execution_history, tool_state, tasks>>

\* clear_history
ClearHistory ==
    /\ execution_history' = <<>>
    /\ UNCHANGED <<now, tool_state, tasks, call, ret>>

(***************************************************************************)
(* The manager and its registry                                            *)
(***************************************************************************)
MaxBatch == 3

MgrNames == {"a", "b"}

api_key == <<"a","p","i","_","k","e","y">>

MgrInputs == {<<[k |-> api_key, v |-> PyStr(<<"s", "k", "-", "1">>)]>>}

MgrInstances == {[cls |-> "Tool", id |-> 1]}

Requests == [tool_name : MgrNames \cup {NoName}, input_data : MgrInputs]

RECURSIVE SeqsUpTo(_, _)
SeqsUpTo(S, n) ==
    IF n = 0 THEN {<<>>}
    ELSE LET shorter == SeqsUpTo(S, n - 1) IN
         shorter \cup {Append(q, x) : q \in {r \in shorter : Len(r) = n - 1}, x \in S}

Batches == SeqsUpTo(Requests, MaxBatch)

\* the registry is filled before the manager is used
Setup == call.kind = "none"

\* Spec: one call of the manager, execute_tool or execute_tools_parallel, of
\* every shape, its coroutines interleaved in every way
Next ==
    \/ \E inst \in MgrInstances :
          /\ Setup
          /\ RegisterTool("a", inst) /\ UNCHANGED <<mgrVars, tplVars, txtVars, apiVars, restVars>>
    \/ \E n \in MgrNames, d \in MgrInputs :
          /\ call.kind = "none"
          /\ CallExecuteTool(n, d) /\ UNCHANGED <<regVars, tplVars, txtVars, apiVars, restVars>>
    \/ \E reqs \in Batches :
          /\ call.kind = "none"
          /\ CallExecuteToolsParallel(reqs) /\ UNCHANGED <<regVars, tplVars, txtVars, apiVars, restVars>>
    \/ \E i \in 1..Len(tasks) : TaskStart(i) /\ UNCHANGED <<regVars, tplVars, txtVars, apiVars, restVars>>
    \/ \E i \in 1..Len(tasks), v \in ValidateOutcomes :
          TaskValidated(i, v) /\ UNCHANGED <<regVars, tplVars, txtVars, apiVars, restVars>>
    \/ \E i \in 1..Len(tasks), e \in ExecuteOutcomes :
          TaskExecuted(i, e) /\ UNCHANGED <<regVars, tplVars, txtVars, apiVars, restVars>>
    \/ ReturnExecuteTool /\ UNCHANGED <<regVars, tplVars, txtVars, apiVars, restVars>>
    \/ ReturnExecuteToolsParallel /\ UNCHANGED <<regVars, tplVars, txtVars, apiVars, restVars>>

Spec == Init /\ [][Next]_vars

(***************************************************************************)
(* SpecHist: long runs of the manager.  Calls follow one another until     *)
(* MaxCalls executions were made, each of tool "a" with the same input and *)
(* a tool that accepts and succeeds, alone or in batches of two;           *)
(* clear_history is called after at most MaxEarlyClear executions or on a  *)
(* full history.                                                           *)
(***************************************************************************)
MaxCalls == 102
MaxEarlyClear == 3

HistRequest == [tool_name |-> "a", input_data |-> <<[k |-> api_key, v |-> PyStr(<<"s", "k", "-", "1">>)]>>]

NextHist ==
    \/ \E inst \in MgrInstances :
          /\ Setup
          /\ RegisterTool("a", inst) /\ UNCHANGED <<mgrVars, tplVars, txtVars, apiVars, restVars>>
    \/ /\ now + 1 <= MaxCalls
       /\ CallExecuteTool(HistRequest.tool_name, HistRequest.input_data)
       /\ UNCHANGED <<regVars, tplVars, txtVars, apiVars, restVars>>
    \/ /\ now + 2 <= MaxCalls
       /\ CallExecuteToolsParallel(<<HistRequest, HistRequest>>)
       /\ UNCHANGED <<regVars, tplVars, txtVars, apiVars, restVars>>
    \/ \E i \in 1..Len(tasks) : TaskStart(i) /\ UNCHANGED <<regVars, tplVars, txtVars, apiVars, restVars>>
    \/ \E i \in 1..Len(tasks) : TaskValidated(i, "true") /\ UNCHANGED <<regVars, tplVars, txtVars, apiVars, restVars>>
    \/ \E i \in 1..Len(tasks) : TaskExecuted(i, "success") /\ UNCHANGED <<regVars, tplVars, txtVars, apiVars, restVars>>
    \/ ReturnExecuteTool /\ UNCHANGED <<regVars, tplVars, txtVars, apiVars, restVars>>
    \/ ReturnExecuteToolsParallel /\ UNCHANGED <<regVars, tplVars, txtVars, apiVars, restVars>>
    \/ /\ Idle
       /\ now <= MaxEarlyClear \/ Len(execution_history) = max_history_size
       /\ ClearHistory /\ UNCHANGED <<regVars, tplVars, txtVars, apiVars, restVars>>

SpecHist == Init /\ [][NextHist]_vars

\* C4: the history never holds more than 100 records; a step that records an
\* execution appends its record at the end, and when the history was full it
\* drops the oldest record and keeps the others in their order; the records
\* are in the order in which they were appended (timestamps increase).
C4_HistoryBounded ==
    [][ /\ Len(execution_history') <= 100
        /\ \A i, j \in 1..Len(execution_history') :
              i < j => execution_history'[i].timestamp < execution_history'[j].timestamp
        /\ (now' # now) =>
              /\ Len(execution_history') >= 1
              /\ execution_history'[Len(execution_history')].timestamp = now'
              /\ IF Len(execution_history) = 100
                 THEN /\ Len(execution_history') = 100
                      /\ SubSeq(execution_history', 1, 99) = Tail(execution_history)
                 ELSE SubSeq(execution_history', 1, Len(execution_history') - 1)
                         = execution_history
      ]_vars

\* the history is full and its two oldest records were dropped
C4_Witness ==
    /\ Len(execution_history) = max_history_size
    /\ execution_history[1].timestamp = 3
    /\ execution_history[max_history_size].timestamp = max_history_size + 2

(***************************************************************************)
(* SpecSan: one execute_tool with an input_data drawn from the dicts of up *)
(* to MaxKeys keys over SanKeys and SanValues.                             *)
(***************************************************************************)
MaxKeys == 2

SanKeys ==
    {<<"a","p","i","_","k","e","y">>,
     <<"A","u","t","h","T","o","k","e","n">>,
     <<"m","o","n","k","e","y">>,
     <<"n","a","m","e">>,
     <<"t","e","x","t">>,
     <<"s","o","c","i","a","l","_","s","e","c","u","r","i","t","y">>,
     <<"c","a","r","d","_","n","u","m","b","e","r">>,
     <<"P","I","N">>}

\* a string, an int and a nested dict with a sensitive key of its own
SanValues ==
    {PyStr(<<"v">>), PyInt(7),
     PyDict(<<[k |-> <<"p","a","s","s","w","o","r","d">>, v |-> PyStr(<<"p", "w">>)]>>)}

RECURSIVE DictsUpTo(_, _, _)
DictsUpTo(K, V, n) ==
    IF n = 0 THEN {<<>>}
    ELSE LET shorter == DictsUpTo(K, V, n - 1)
             longest == {d \in shorter : Len(d) = n - 1}
         IN shorter \cup
            UNION {{Append(d, [k |-> key, v |-> val]) : key \in {y \in K : ~DictHas(d, y)},
                                                       val \in V} : d \in longest}

SanInputs == DictsUpTo(SanKeys, SanValues, MaxKeys)

NextSan ==
    \/ \E inst \in MgrInstances :
          /\ Setup
          /\ RegisterTool("a", inst) /\ UNCHANGED <<mgrVars, tplVars, txtVars, apiVars, restVars>>
    \/ \E d \in SanInputs :
          /\ call.kind = "none"
          /\ CallExecuteTool("a", d) /\ UNCHANGED <<regVars, tplVars, txtVars, apiVars, restVars>>
    \/ \E i \in 1..Len(tasks) : TaskStart(i) /\ UNCHANGED <<regVars, tplVars, txtVars, apiVars, restVars>>
    \/ \E i \in 1..Len(tasks), v \in {"true", "false"} :
          TaskValidated(i, v) /\ UNCHANGED <<regVars, tplVars, txtVars, apiVars, restVars>>
    \/ \E i \in 1..Len(tasks) : TaskExecuted(i, "success") /\ UNCHANGED <<regVars, tplVars, txtVars, apiVars, restVars>>
    \/ ReturnExecuteTool /\ UNCHANGED <<regVars, tplVars, txtVars, apiVars, restVars>>

SpecSan == Init /\ [][NextSan]_vars

\* the substrings the claim lists
ClaimedSubstrings ==
    {<<"p","a","s","s","w","o","r","d">>,
     <<"a","p","i","_","k","e","y">>,
     <<"t","o","k","e","n">>,
     <<"s","e","c","r","e","t">>,
     <<"c","r","e","d","e","n","t","i","a","l">>,
     <<"a","u","t","h">>,
     <<"p","r","i","v","a","t","e">>,
     <<"k","e","y">>,
     <<"c","e","r","t","i","f","i","c","a","t","e">>,
     <<"s","s","n">>,
     <<"c","r","e","d","i","t","_","c","a","r","d">>,
     <<"c","v","v">>,
     <<"p","i","n">>}

\* those and the two more the code lists
AmendedSubstrings ==
    ClaimedSubstrings \cup {<<"s","o","c","i","a","l","_","s","e","c","u","r","i","t","y">>, <<"c","a","r","d","_","n","u","m","b","e","r">>}

Contains(key, substrings) == \E sub \in substrings : StrIn(sub, lower(key))

\* every record holds the input of its call with exactly the keys that contain
\* one of `substrings` redacted
RedactedBy(substrings) ==
    \A n \in 1..Len(execution_history) :
        LET recorded == execution_history[n].input_data
            original == tasks[n].input_data
        IN /\ DictKeys(recorded) = DictKeys(original)
           /\ \A m \in 1..Len(original) :
                 IF Contains(original[m].k, substrings)
                 THEN recorded[m].v = PyStr(REDACTED)
                 ELSE recorded[m].v = original[m].v

\* C5 as claimed: in every history record each input key whose lower-cased
\* name contains one of password, api_key, token, secret, credential, auth,
\* private, key, certificate, ssn, credit_card, cvv, pin is "[REDACTED]" and
\* every other key has its original value.
C5_RedactionAsClaimed == RedactedBy(ClaimedSubstrings)

\* C5 amended: the same with social_security and card_number added to the list.
C5_Redaction == RedactedBy(AmendedSubstrings)

\* a record with a redacted mixed-case key and a nested dict left as it was
C5_Witness ==
    /\ Len(execution_history) = 1
    /\ DictKeys(tasks[1].input_data) = <<<<"A","u","t","h","T","o","k","e","n">>, <<"n","a","m","e">>>>
    /\ tasks[1].input_data[1].v = PyInt(7)
    /\ tasks[1].input_data[2].v.type = "dict"
    /\ execution_history[1].input_data[1].v = PyStr(REDACTED)
    /\ execution_history[1].input_data[2].v = tasks[1].input_data[2].v

(***************************************************************************)
(* TemplateEngineTool (document/template_engine.py).  Templates, keys and  *)
(* rendered text are sequences of characters.                              *)
(***************************************************************************)
\* bool(value)
Truthy(value) ==
    CASE value.type = "NoneType" -> FALSE
      [] value.type = "bool" -> value.b
      [] value.type = "int" -> value.n # 0
      [] value.type = "str" -> Len(value.s) > 0
      [] value.type = "list" -> Len(value.items) > 0
      [] value.type = "dict" -> Len(value.d) > 0

Digits == <<"0", "1", "2", "3", "4", "5", "6", "7", "8", "9">>

RECURSIVE NatStr(_)
NatStr(n) == IF n < 10 THEN <<Digits[n + 1]>> ELSE NatStr(n \div 10) \o <<Digits[(n % 10) + 1]>>

RECURSIVE Join(_, _)
Join(parts, sep) ==
    IF parts = <<>> THEN <<>>
    ELSE IF Len(parts) = 1 THEN parts[1]
    ELSE parts[1] \o sep \o Join(Tail(parts), sep)

\* repr(value); strings are taken to hold no quote or backslash
RECURSIVE PyRepr(_)
PyRepr(value) ==
    CASE value.type = "NoneType" -> <<"N", "o", "n", "e">>
      [] value.type = "bool" -> IF value.b THEN <<"T", "r", "u", "e">>
                                ELSE <<"F", "a", "l", "s", "e">>
      [] value.type = "int" -> IF value.n < 0 THEN <<"-">> \o NatStr(-value.n)
                               ELSE NatStr(value.n)
      [] value.type = "str" -> <<"'">> \o value.s \o <<"'">>
      [] value.type = "list" ->
            <<"[">> \o Join([n \in 1..Len(value.items) |-> PyRepr(value.items[n])], <<",", " ">>)
                    \o <<"]">>
      [] value.type = "dict" ->
            <<"{">> \o Join([n \in 1..Len(value.d) |->
                               <<"'">> \o value.d[n].k \o <<"'", ":", " ">>
                                       \o PyRepr(value.d[n].v)], <<",", " ">>)
                    \o <<"}">>

\* str(value)
PyStrOf(value) == IF value.type = "str" THEN value.s ELSE PyRepr(value)

\* the characters \s matches and str.strip() removes
IsSpace(c) == c \in {" ", "\n", "\t"}

RECURSIVE lstrip(_)
lstrip(str) == IF str # <<>> /\ IsSpace(Head(str)) THEN lstrip(Tail(str)) ELSE str

RECURSIVE rstrip(_)
rstrip(str) ==
    IF str # <<>> /\ IsSpace(str[Len(str)]) THEN rstrip(SubSeq(str, 1, Len(str) - 1)) ELSE str

strip(str) == rstrip(lstrip(str))

\* lit occurs in str at position p
StartsAt(str, lit, p) ==
    /\ p >= 1
    /\ p + Len(lit) - 1 <= Len(str)
    /\ SubSeq(str, p, p + Len(lit) - 1) = lit

\* the first position >= p at which lit occurs in str, 0 if there is none
Find(str, lit, p) ==
    IF \E q \in p..Len(str) : StartsAt(str, lit, q)
    THEN CHOOSE q \in p..Len(str) :
            StartsAt(str, lit, q) /\ \A r \in p..(q - 1) : ~StartsAt(str, lit, r)
    ELSE 0

\* str.split(sep) for a one-character sep
RECURSIVE Split(_, _)
Split(str, sep) ==
    LET q == Find(str, <<sep>>, 1) IN
    IF q = 0 THEN <<str>>
    ELSE <<SubSeq(str, 1, q - 1)>> \o Split(SubSeq(str, q + 1, Len(str)), sep)

OPEN == <<"{", "{">>
CLOSE == <<"}", "}">>
IF_TAG == <<"{", "{", "#", "i", "f">>
ELSE_TAG == <<"{", "{", "e", "l", "s", "e", "}", "}">>
ENDIF_TAG == <<"{", "{", "/", "i", "f", "}", "}">>
EACH_TAG == <<"{", "{", "#", "e", "a", "c", "h">>
ENDEACH_TAG == <<"{", "{", "/", "e", "a", "c", "h", "}", "}">>

NoMatch == [ok |-> FALSE]

\* Op applied to the value x, which stands for a local variable of the code
With(x, Op(_)) == Op(x)

\* a match of  tag \s+ ([^}]+) \}\}  at p: the group runs from the first
\* character after the tag (q), which is white space, up to the first "}"
\* (r), is at least two characters long, and "}}" follows it
HeaderAt(str, tag, p) ==
    With(p + Len(tag), LAMBDA q :
    With(Find(str, <<"}">>, q), LAMBDA r :
        IF /\ StartsAt(str, tag, p)
           /\ q <= Len(str) /\ IsSpace(str[q])
           /\ r >= q + 2
           /\ StartsAt(str, CLOSE, r)
        THEN [ok |-> TRUE, name |-> strip(SubSeq(str, q, r - 1)), end |-> r + 2]
        ELSE NoMatch))

\* if_else_pattern  \{\{#if\s+([^}]+)\}\}(.*?)\{\{else\}\}(.*?)\{\{\/if\}\}  at p:
\* the header h, the first {{else}} after it (e), the first {{/if}} after
\* that (f)
IfElseAt(str, p) ==
    With(HeaderAt(str, IF_TAG, p), LAMBDA h :
        IF ~h.ok THEN NoMatch
        ELSE With(Find(str, ELSE_TAG, h.end), LAMBDA e :
            IF e = 0 THEN NoMatch
            ELSE With(Find(str, ENDIF_TAG, e + Len(ELSE_TAG)), LAMBDA f :
                IF f = 0 THEN NoMatch
                ELSE [ok |-> TRUE, start |-> p, end |-> f + Len(ENDIF_TAG),
                      name |-> h.name,
                      body |-> SubSeq(str, h.end, e - 1),
                      else_body |-> SubSeq(str, e + Len(ELSE_TAG), f - 1)])))

\* a block pattern  open_tag\s+([^}]+)\}\}(.*?)close_tag  at p (if_pattern with
\* {{#if and {{/if}}, each_pattern with {{#each and {{/each}}): the header h
\* and the first closing tag after it (f)
BlockAt(str, open_tag, close_tag, p) ==
    With(HeaderAt(str, open_tag, p), LAMBDA h :
        IF ~h.ok THEN NoMatch
        ELSE With(Find(str, close_tag, h.end), LAMBDA f :
            IF f = 0 THEN NoMatch
            ELSE [ok |-> TRUE, start |-> p, end |-> f + Len(close_tag),
                  name |-> h.name, body |-> SubSeq(str, h.end, f - 1),
                  else_body |-> <<>>]))

\* var_pattern  \{\{([^#\/][^}]*?)\}\}  at p: r is the first "}" after the
\* first character of the group
VarAt(str, p) ==
    With(Find(str, <<"}">>, p + 3), LAMBDA r :
        IF /\ StartsAt(str, OPEN, p)
           /\ p + 2 <= Len(str) /\ str[p + 2] \notin {"#", "/"}
           /\ r # 0
           /\ StartsAt(str, CLOSE, r)
        THEN [ok |-> TRUE, start |-> p, end |-> r + 2,
              name |-> strip(SubSeq(str, p + 2, r - 1)), body |-> <<>>, else_body |-> <<>>]
        ELSE NoMatch)

MatchAt(kind, str, p) ==
    CASE kind = "if_else" -> IfElseAt(str, p)
      [] kind = "if" -> BlockAt(str, IF_TAG, ENDIF_TAG, p)
      [] kind = "each" -> BlockAt(str, EACH_TAG, ENDEACH_TAG, p)
      [] kind = "var" -> VarAt(str, p)

\* the positions >= p at which the pattern matches
MatchPositions(kind, str, p) == {q \in p..Len(str) : MatchAt(kind, str, q).ok}

\* re.search from position p: the leftmost match, NoMatch if there is none
Search(kind, str, p) ==
    With(MatchPositions(kind, str, p), LAMBDA at :
        IF at = {} THEN NoMatch
        ELSE MatchAt(kind, str, CHOOSE q \in at : \A r \in at : q <= r))

\* data.get(key) with default None
Get(data, key) == IF DictHas(data, key) THEN DictGet(data, key) ELSE None

\* _get_nested_value (template_engine.py 242-253)
RECURSIVE get_nested_value(_, _)
get_nested_value(current, parts) ==
    IF parts = <<>> THEN current
    ELSE IF current.type = "dict" /\ DictHas(current.d, Head(parts))
    THEN get_nested_value(DictGet(current.d, Head(parts)), Tail(parts))
    ELSE None

\* mutant: every name is looked up as one key
replace_var_flat(m, data) ==
    With(Get(data, m.name), LAMBDA value : IF value # None THEN PyStrOf(value) ELSE <<>>)

\* replace_var (template_engine.py 258-268)
replace_var(m, data) ==
    With(IF \E n \in 1..Len(m.name) : m.name[n] = "."
         THEN get_nested_value(PyDict(data), Split(m.name, "."))
         ELSE Get(data, m.name),
         LAMBDA value : IF value # None THEN PyStrOf(value) ELSE <<>>)

\* mutant: the condition is followed as a dotted path
replace_cond_path(m, data) ==
    IF Truthy(get_nested_value(PyDict(data), Split(m.name, ".")))
    THEN m.body ELSE m.else_body

\* replace_if_else and replace_if (template_engine.py 293-315);
\* data.get(condition, False) is falsy for a missing key
replace_cond(m, data) == IF Truthy(Get(data, m.name)) THEN m.body ELSE m.else_body

THIS == <<"t", "h", "i", "s">>
ITEM == <<"i", "t", "e", "m">>

\* list(array) of replace_each (template_engine.py 348-354): the items, or
\* "not iterable"
Iterate(array) ==
    CASE array.type = "list" -> [ok |-> TRUE, items |-> array.items]
      [] array.type = "str" -> [ok |-> TRUE,
                                items |-> [n \in 1..Len(array.s) |-> PyStr(<<array.s[n]>>)]]
      [] array.type = "dict" -> [ok |-> TRUE,
                                 items |-> [n \in 1..Len(array.d) |-> PyStr(array.d[n].k)]]
      [] OTHER -> [ok |-> FALSE, items |-> <<>>]

\* mutant: the element is bound to "this" in the outer scope
item_context_this(data, item) == DictSet(data, THIS, item)

\* the context of one item (template_engine.py 359-368)
item_context(data, item) ==
    DictSet(data, ITEM, IF item.type = "dict" THEN item ELSE PyDict(<<[k |-> THIS, v |-> item]>>))

\* re.sub(var_pattern, replace_var, template) from position p on
RECURSIVE re_sub_var(_, _, _)
re_sub_var(template, data, p) ==
    With(Search("var", template, p), LAMBDA m :
        IF ~m.ok THEN SubSeq(template, p, Len(template))
        ELSE SubSeq(template, p, m.start - 1) \o replace_var(m, data)
             \o re_sub_var(template, data, m.end))

\* re.sub(if_else_pattern, replace_if_else, template) and
\* re.sub(if_pattern, replace_if, template) from position p on
RECURSIVE re_sub_cond(_, _, _, _)
re_sub_cond(kind, template, data, p) ==
    With(Search(kind, template, p), LAMBDA m :
        IF ~m.ok THEN SubSeq(template, p, Len(template))
        ELSE SubSeq(template, p, m.start - 1) \o replace_cond(m, data)
             \o re_sub_cond(kind, template, data, m.end))

\* _process_variables (template_engine.py 231-273)
process_variables(template, data) == re_sub_var(template, data, 1)

\* _process_conditionals (template_engine.py 275-325)
RECURSIVE process_conditionals(_, _)
process_conditionals(template, data) ==
    With(re_sub_cond("if", re_sub_cond("if_else", template, data, 1), data, 1),
         LAMBDA new_template :
            IF new_template = template THEN template
            ELSE process_conditionals(new_template, data))

RECURSIVE re_sub_each(_, _, _)
RECURSIVE process_loops(_, _)
RECURSIVE process_template(_, _)
RECURSIVE replace_each(_, _, _, _)

\* re.sub(each_pattern, replace_each, template) from position p on; array is
\* data.get(array_name, [])
re_sub_each(template, data, p) ==
    With(Search("each", template, p), LAMBDA m :
        IF ~m.ok THEN SubSeq(template, p, Len(template))
        ELSE SubSeq(template, p, m.start - 1)
             \o With(Iterate(IF DictHas(data, m.name) THEN DictGet(data, m.name)
                             ELSE PyList(<<>>)),
                     LAMBDA array :
                        IF array.ok THEN replace_each(m.body, data, array.items, 1)
                        ELSE <<>>)
             \o re_sub_each(template, data, m.end))

\* the loop over the items in replace_each (template_engine.py 357-374)
replace_each(item_template, data, items, n) ==
    IF n > Len(items) THEN <<>>
    ELSE process_template(item_template, item_context(data, items[n]))
         \o replace_each(item_template, data, items, n + 1)

\* _process_loops (template_engine.py 327-384)
process_loops(template, data) ==
    With(re_sub_each(template, data, 1), LAMBDA new_template :
        IF new_template = template THEN template
        ELSE process_loops(new_template, data))

\* _process_template (template_engine.py 207-229)
process_template(template, data) ==
    process_variables(process_loops(process_conditionals(template, data), data), data)

\* the names of the successive var_pattern matches from position p on
RECURSIVE VarNames(_, _)
VarNames(template, p) ==
    With(Search("var", template, p), LAMBDA m :
        IF ~m.ok THEN <<>> ELSE <<m.name>> \o VarNames(template, m.end))

\* some name of names has no dot
SomeUndotted(names) ==
    \E n \in 1..Len(names) : \A c \in 1..Len(names[n]) : names[n][c] # "."

\* data.get raises AttributeError when data is not a dict: the first match
\* of a conditional or loop pattern calls it, and so does a variable whose
\* name has no dot (a dotted name goes through _get_nested_value, which
\* tests isinstance first)
CallsGet(template) ==
    \/ \E kind \in {"if_else", "if", "each"} : Search(kind, template, 1).ok
    \/ SomeUndotted(VarNames(template, 1))

TEXT == <<"t", "e", "x", "t">>
HTML == <<"h", "t", "m", "l">>
MARKDOWN == <<"m", "a", "r", "k", "d", "o", "w", "n">>
JSON == <<"j", "s", "o", "n">>

\* _format_output (template_engine.py 386-418) for every format but json:
\* html, markdown and unknown formats return the content
format_output(content, format_type) == content

\* the template directory: readable files with their content, and names
\* whose open() fails with an error other than FileNotFoundError
TemplateDir ==
    <<[k |-> <<"f">>, v |-> <<"H", "i", " ", "{", "{", "x", "}", "}">>],
      [k |-> <<"e">>, v |-> <<>>]>>
Unreadable == {<<"d">>}

\* mutant: the name enters the cache before the file is read
load_template_cache_first(cache, template_file) ==
    IF DictHas(cache, template_file)
    THEN [raised |-> None, value |-> DictGet(cache, template_file), cache |-> cache]
    ELSE IF DictHas(TemplateDir, template_file)
    THEN [raised |-> None, value |-> DictGet(TemplateDir, template_file),
          cache |-> DictSet(cache, template_file, DictGet(TemplateDir, template_file))]
    ELSE [raised |-> ToolError("Template file not found", "TEMPLATE_NOT_FOUND", NoDetails),
          value |-> None, cache |-> DictSet(cache, template_file, <<>>)]

\* _load_template (template_engine.py 164-205): [raised, value, cache]
load_template(cache, template_file) ==
    IF DictHas(cache, template_file)
    THEN [raised |-> None, value |-> DictGet(cache, template_file), cache |-> cache]
    ELSE IF DictHas(TemplateDir, template_file)
    THEN [raised |-> None, value |-> DictGet(TemplateDir, template_file),
          cache |-> IF Len(cache) < template_cache_size
                    THEN DictSet(cache, template_file, DictGet(TemplateDir, template_file))
                    ELSE cache]
    ELSE IF template_file \in Unreadable
    THEN [raised |-> ToolError("Failed to load template file", "TEMPLATE_LOAD_ERROR",
                               <<[k |-> "error_type", v |-> "IsADirectoryError"]>>),
          value |-> None, cache |-> cache]
    ELSE [raised |-> ToolError("Template file not found", "TEMPLATE_NOT_FOUND", NoDetails),
          value |-> None, cache |-> cache]

\* TemplateEngineTool.validate_input (template_engine.py 109-133)
template_validate_input(input_data) ==
    IF ~DictHas(input_data, "template") /\ ~DictHas(input_data, "template_file") THEN FALSE
    ELSE IF DictHas(input_data, "data") /\ DictGet(input_data, "data").type # "dict" THEN FALSE
    ELSE IF /\ DictHas(input_data, "output_format")
            /\ DictGet(input_data, "output_format") \notin
                  {PyStr(TEXT), PyStr(HTML), PyStr(MARKDOWN), PyStr(JSON)}
    THEN FALSE
    ELSE TRUE

processing_error(error_type) ==
    ToolError("Failed to process template", "TEMPLATE_PROCESSING_ERROR",
              <<[k |-> "error_type", v |-> error_type]>>)

\* if template_str: (template_engine.py 63)
template_given(template_str) == Truthy(template_str)

\* the SUCCESS result of execute (template_engine.py 83-94)
template_result(template_content, processed_content, output_format, template_file, t) ==
    ToolResult(SUCCESS,
               <<[k |-> "content", v |-> PyStr(processed_content)],
                 [k |-> "format", v |-> output_format]>>,
               None, None,
               <<[k |-> "template_length", v |-> PyInt(Len(template_content))],
                 [k |-> "output_length", v |-> PyInt(Len(processed_content))],
                 [k |-> "template_file", v |-> template_file]>>, t)

\* execute from "Process template" on (template_engine.py 75-94), with the
\* template content and the cache as _load_template left it
template_process(template_content, cache, data, output_format, template_file, t) ==
    IF data.type # "dict" /\ CallsGet(template_content)
    THEN [raised |-> processing_error("AttributeError"), result |-> None, cache |-> cache]
    ELSE With(IF data.type = "dict" THEN process_template(template_content, data.d)
              ELSE process_variables(template_content, <<>>),
              LAMBDA processed :
                [raised |-> None, cache |-> cache,
                 result |-> template_result(template_content,
                                IF output_format # PyStr(TEXT)
                                THEN format_output(processed, output_format.s)
                                ELSE processed,
                                output_format, template_file, t)])

\* TemplateEngineTool.execute (template_engine.py 41-107) with the cache as
\* it is on entry, t the clock: [raised, result, cache]
template_execute(cache, input_data, t) ==
    With(Get(input_data, "template"), LAMBDA template_str :
    With(Get(input_data, "template_file"), LAMBDA template_file :
    With(IF DictHas(input_data, "data") THEN DictGet(input_data, "data") ELSE PyDict(<<>>),
         LAMBDA data :
    With(IF DictHas(input_data, "output_format") THEN DictGet(input_data, "output_format")
         ELSE PyStr(TEXT),
         LAMBDA output_format :
        IF template_given(template_str)
        THEN IF template_str.type # "str"
             THEN [raised |-> processing_error("TypeError"), result |-> None, cache |-> cache]
             ELSE template_process(template_str.s, cache, data, output_format,
                                   template_file, t)
        ELSE IF Truthy(template_file)
        THEN With(load_template(cache, template_file.s), LAMBDA loaded :
                IF loaded.raised # None
                THEN [raised |-> loaded.raised, result |-> None, cache |-> loaded.cache]
                ELSE template_process(loaded.value, loaded.cache, data, output_format,
                                      template_file, t))
        ELSE [raised |-> ToolError("No template or template_file provided",
                                   "MISSING_TEMPLATE", NoDetails),
              result |-> None, cache |-> cache]))))

\* one call of tool.execute(input_data) on a TemplateEngineTool
TemplateExecute(input_data) ==
    With(template_execute(template_cache, input_data, now + 1), LAMBDA out :
        /\ tpl_in' = input_data
        /\ tpl_out' = [raised |-> out.raised, result |-> out.result]
        /\ template_cache' = out.cache
        /\ tpl_run' = tpl_run
        /\ now' = now + 1
        /\ UNCHANGED <<regVars, execution_history, tool_state, tasks, call, ret, txtVars, apiVars, restVars>>)

(***************************************************************************)
(* SpecTpl: one call of TemplateEngineTool.execute per behaviour, on a     *)
(* template string put together from at most MaxPieces pieces, or on a     *)
(* template file.                                                          *)
(***************************************************************************)
MaxPieces == 2

\* fragments of markers, plain text and whole blocks
Pieces ==
    {<<"{", "{">>,
     <<"}", "}">>,
     <<"x">>,
     <<" ">>,
     <<"{", "{", "#", "i", "f", " ", "a", "}", "}">>,
     <<"{", "{", "e", "l", "s", "e", "}", "}">>,
     <<"{", "{", "/", "i", "f", "}", "}">>,
     <<"{", "{", "#", "e", "a", "c", "h", " ", "i", "t", "e", "m", "s", "}", "}">>,
     <<"{", "{", "/", "e", "a", "c", "h", "}", "}">>,
     <<"{", "{", "x", "}", "}">>,
     <<"{", "{", "i", "t", "e", "m", ".", "t", "h", "i", "s", "}", "}">>,
     <<"{", "{", "#", "i", "f", " ", "a", "}", "}", "Y", "{", "{", "/", "i", "f", "}", "}">>,
     <<"{", "{", "#", "i", "f", " ", "b", "}", "}", "Y", "{", "{", "e", "l", "s", "e", "}", "}", "N", "{", "{", "/", "i", "f", "}", "}">>,
     <<"{", "{", "#", "e", "a", "c", "h", " ", "i", "t", "e", "m", "s", "}", "}", "{", "{", "t", "h", "i", "s", "}", "}", ";", "{", "{", "/", "e", "a", "c", "h", "}", "}">>}

RECURSIVE Concats(_, _)
Concats(P, n) ==
    IF n = 0 THEN {<<>>}
    ELSE Concats(P, n - 1) \cup {t \o piece : t \in Concats(P, n - 1), piece \in P}

Templates == Concats(Pieces, MaxPieces)

KeyA == <<"a">>
KeyB == <<"b">>
KeyX == <<"x">>
KeyItems == <<"i", "t", "e", "m", "s">>

\* data mappings: empty; a true flag, a string and a list of ints; a falsy
\* int, a truthy string, a null and a string where a list is expected
TplData ==
    {<<>>,
     <<[k |-> KeyA, v |-> PyBool(TRUE)], [k |-> KeyX, v |-> PyStr(<<"5">>)],
       [k |-> KeyItems, v |-> PyList(<<PyInt(1), PyInt(2), PyInt(3)>>)]>>,
     <<[k |-> KeyA, v |-> PyInt(0)], [k |-> KeyB, v |-> PyStr(<<"y">>)],
       [k |-> KeyX, v |-> None], [k |-> KeyItems, v |-> PyStr(<<"a", "b">>)]>>}

TplFormats == {PyStr(TEXT), PyStr(HTML), PyStr(MARKDOWN)}

TplFiles == {<<"f">>, <<"e">>, <<"d">>, <<"g">>}

\* the inputs of execute: a template string with data and no format, a
\* template string with a format, a template file (alone or next to an
\* empty template string), a template that is not a string, data that is
\* not a mapping, and an input with neither template nor file
TplInputs ==
    {<<[k |-> "template", v |-> PyStr(t)], [k |-> "data", v |-> PyDict(d)]>> :
        t \in Templates, d \in TplData}
    \cup {<<[k |-> "template", v |-> PyStr(t)], [k |-> "output_format", v |-> f]>> :
        t \in Concats(Pieces, 1), f \in TplFormats}
    \cup {<<[k |-> "template_file", v |-> PyStr(file)], [k |-> "data", v |-> PyDict(d)]>> :
        file \in TplFiles, d \in TplData}
    \cup {<<[k |-> "template", v |-> PyStr(<<>>)], [k |-> "template_file", v |-> PyStr(file)]>> :
        file \in TplFiles}
    \cup {<<[k |-> "template", v |-> PyInt(5)]>>,
          <<[k |-> "template", v |-> None]>>,
          <<[k |-> "data", v |-> PyDict(<<>>)]>>}
    \cup {<<[k |-> "template", v |-> PyStr(t)], [k |-> "data", v |-> None]>> :
        t \in Concats(Pieces, 1)}

NextTpl == tpl_out = None /\ \E input_data \in TplInputs : TemplateExecute(input_data)

SpecTpl == Init /\ [][NextTpl]_vars

(***************************************************************************)
(* SpecVar: one call of TemplateEngineTool.execute on a template put       *)
(* together from placeholders and plain text, with nested data.            *)
(***************************************************************************)
KeyC == <<"c">>
KeyN == <<"n">>
KeyAB == <<"a", ".", "b">>

\* pieces of a template: plain text (path <<>>), and placeholders with the
\* keys of their path
VarPieces ==
    {[text |-> <<"Y">>, var |-> FALSE, path |-> <<>>],
     [text |-> <<" ">>, var |-> FALSE, path |-> <<>>],
     [text |-> <<".">>, var |-> FALSE, path |-> <<>>],
     [text |-> <<"{", "{", "x", "}", "}">>, var |-> TRUE, path |-> <<KeyX>>],
     [text |-> <<"{", "{", " ", "x", " ", "}", "}">>, var |-> TRUE, path |-> <<KeyX>>],
     [text |-> <<"{", "{", "n", "}", "}">>, var |-> TRUE, path |-> <<KeyN>>],
     [text |-> <<"{", "{", "a", ".", "b", "}", "}">>, var |-> TRUE, path |-> <<KeyA, KeyB>>],
     [text |-> <<"{", "{", "a", ".", "b", ".", "c", "}", "}">>, var |-> TRUE,
      path |-> <<KeyA, KeyB, KeyC>>]}

\* the sequences of at most n pieces
RECURSIVE PieceSeqs(_, _)
PieceSeqs(P, n) ==
    IF n = 0 THEN {<<>>}
    ELSE PieceSeqs(P, n - 1) \cup {Append(q, piece) : q \in PieceSeqs(P, n - 1), piece \in P}

\* the template a sequence of pieces spells
RECURSIVE TextOf(_)
TextOf(pieces) == IF pieces = <<>> THEN <<>> ELSE Head(pieces).text \o TextOf(Tail(pieces))

\* data mappings: empty; a string, a three-level nesting and a null; a
\* bool, a path that runs into a string, and a key with a dot in it; a
\* zero, a null where a mapping is expected and an empty string; a list
VarData ==
    {<<>>,
     <<[k |-> KeyX, v |-> PyStr(<<"5">>)],
       [k |-> KeyA, v |-> PyDict(<<[k |-> KeyB, v |-> PyDict(<<[k |-> KeyC, v |-> PyInt(7)]>>)]>>)],
       [k |-> KeyN, v |-> None]>>,
     <<[k |-> KeyX, v |-> PyBool(TRUE)],
       [k |-> KeyA, v |-> PyDict(<<[k |-> KeyB, v |-> PyStr(<<"s">>)]>>)],
       [k |-> KeyAB, v |-> PyInt(1)]>>,
     <<[k |-> KeyX, v |-> PyInt(0)], [k |-> KeyA, v |-> None],
       [k |-> KeyN, v |-> PyStr(<<>>)]>>,
     <<[k |-> KeyX, v |-> PyList(<<PyInt(1), PyStr(<<"a">>)>>)],
       [k |-> KeyA, v |-> PyDict(<<[k |-> KeyC, v |-> PyInt(1)]>>)]>>}

VarInputs ==
    {<<[k |-> "template", v |-> PyStr(TextOf(q))], [k |-> "data", v |-> PyDict(d)]>> :
        q \in PieceSeqs(VarPieces, MaxPieces) \ {<<>>}, d \in VarData}

NextVar == tpl_out = None /\ \E input_data \in VarInputs : TemplateExecute(input_data)

SpecVar == Init /\ [][NextVar]_vars

(***************************************************************************)
(* SpecCond: one call of TemplateEngineTool.execute on a template with one *)
(* conditional block between plain text.                                   *)
(***************************************************************************)
\* the branches of a block: plain text, nothing, or a placeholder
BranchPieces ==
    {[text |-> <<"Y">>, var |-> FALSE, path |-> <<>>],
     [text |-> <<"N">>, var |-> FALSE, path |-> <<>>],
     [text |-> <<>>, var |-> FALSE, path |-> <<>>],
     [text |-> <<"{", "{", "x", "}", "}">>, var |-> TRUE, path |-> <<KeyX>>]}

\* the condition as written after {{#if, and the key it names
CondNames ==
    {[text |-> <<" ", "a">>, key |-> KeyA],
     [text |-> <<" ", "b">>, key |-> KeyB],
     [text |-> <<" ", " ", "a", " ">>, key |-> KeyA],
     [text |-> <<" ", "a", ".", "b">>, key |-> KeyAB]}

\* a block in the if/else form or the if-only form, between pre and suf
CondCases ==
    [pre : {<<>>, <<"p">>}, cond : CondNames, then : BranchPieces,
     has_else : BOOLEAN, else : BranchPieces, suf : {<<>>, <<"s">>}]

CondText(c) ==
    c.pre \o IF_TAG \o c.cond.text \o CLOSE \o c.then.text
          \o (IF c.has_else THEN ELSE_TAG \o c.else.text ELSE <<>>)
          \o ENDIF_TAG \o c.suf

\* data mappings: empty; a true and a string; a zero and a truthy string;
\* a mapping under a and an empty list under b; a key with a dot in it, an
\* empty string and a null
CondData ==
    {<<>>,
     <<[k |-> KeyA, v |-> PyBool(TRUE)], [k |-> KeyX, v |-> PyStr(<<"5">>)]>>,
     <<[k |-> KeyA, v |-> PyInt(0)], [k |-> KeyB, v |-> PyStr(<<"y">>)],
       [k |-> KeyX, v |-> PyStr(<<"5">>)]>>,
     <<[k |-> KeyA, v |-> PyDict(<<[k |-> KeyB, v |-> PyBool(TRUE)]>>)],
       [k |-> KeyB, v |-> PyList(<<>>)]>>,
     <<[k |-> KeyAB, v |-> PyInt(1)], [k |-> KeyA, v |-> PyStr(<<>>)],
       [k |-> KeyB, v |-> None]>>}

CondInputs ==
    {<<[k |-> "template", v |-> PyStr(CondText(c))], [k |-> "data", v |-> PyDict(d)]>> :
        c \in {x \in CondCases : x.has_else \/ x.else.text = <<>>}, d \in CondData}

NextCond == tpl_out = None /\ \E input_data \in CondInputs : TemplateExecute(input_data)

SpecCond == Init /\ [][NextCond]_vars

(***************************************************************************)
(* SpecLoop: one call of TemplateEngineTool.execute on a template with one *)
(* {{#each}} block between plain text.                                     *)
(***************************************************************************)
\* the pieces of a loop body: text, {{this}}, {{item.this}}, {{item.n}} and
\* a placeholder of the outer data
BodyPieces ==
    {[text |-> <<";">>, kind |-> "text"],
     [text |-> <<"b">>, kind |-> "text"],
     [text |-> <<"{", "{", "t", "h", "i", "s", "}", "}">>, kind |-> "this"],
     [text |-> <<"{", "{", "i", "t", "e", "m", ".", "t", "h", "i", "s", "}", "}">>,
      kind |-> "item.this"],
     [text |-> <<"{", "{", "i", "t", "e", "m", ".", "n", "}", "}">>, kind |-> "item.n"],
     [text |-> <<"{", "{", "x", "}", "}">>, kind |-> "x"]}

\* the array as named after {{#each, and the key it names
ArrayNames ==
    {[text |-> <<" ", "i", "t", "e", "m", "s">>, key |-> KeyItems],
     [text |-> <<" ", "a", " ">>, key |-> KeyA]}

\* a loop block between pre and suf
LoopCases ==
    [pre : {<<>>, <<"p">>}, array : ArrayNames,
     body : PieceSeqs(BodyPieces, MaxPieces), suf : {<<>>, <<"s">>}]

LoopText(c) ==
    c.pre \o EACH_TAG \o c.array.text \o CLOSE \o TextOf(c.body) \o ENDEACH_TAG \o c.suf

\* data mappings: no array; ints; an empty list; strings, and a list under
\* a; mappings; a null, and a string under a; an int
LoopData ==
    {<<>>,
     <<[k |-> KeyItems, v |-> PyList(<<PyInt(1), PyInt(2), PyInt(3)>>)],
       [k |-> KeyX, v |-> PyStr(<<"5">>)]>>,
     <<[k |-> KeyItems, v |-> PyList(<<>>)]>>,
     <<[k |-> KeyItems, v |-> PyList(<<PyStr(<<"a">>), PyStr(<<"b">>)>>)],
       [k |-> KeyA, v |-> PyList(<<PyInt(0)>>)]>>,
     <<[k |-> KeyItems, v |-> PyList(<<PyDict(<<[k |-> KeyN, v |-> PyInt(1)]>>),
                                       PyDict(<<[k |-> KeyN, v |-> PyInt(2)]>>)>>)]>>,
     <<[k |-> KeyItems, v |-> None], [k |-> KeyA, v |-> PyStr(<<"a", "b">>)]>>,
     <<[k |-> KeyItems, v |-> PyInt(7)]>>}

LoopInputs ==
    {<<[k |-> "template", v |-> PyStr(LoopText(c))], [k |-> "data", v |-> PyDict(d)]>> :
        c \in LoopCases, d \in LoopData}

NextLoop == tpl_out = None /\ \E input_data \in LoopInputs : TemplateExecute(input_data)

SpecLoop == Init /\ [][NextLoop]_vars

(***************************************************************************)
(* SpecFiles: up to MaxLoads calls of TemplateEngineTool.execute on one    *)
(* tool, with template files that exist, cannot be read or do not exist,   *)
(* and with inputs that make execute fail.                                 *)
(***************************************************************************)
MaxLoads == 3

FileInputs ==
    {<<[k |-> "template_file", v |-> PyStr(file)]>> : file \in TplFiles}
    \cup {<<[k |-> "template", v |-> PyStr(<<>>)], [k |-> "template_file", v |-> PyStr(file)],
            [k |-> "data", v |-> PyDict(<<[k |-> KeyX, v |-> PyStr(<<"5">>)]>>)]>> :
            file \in TplFiles}
    \cup {<<[k |-> "template", v |-> PyStr(<<"Y">>)],
            [k |-> "template_file", v |-> PyStr(<<"g">>)]>>,
          <<[k |-> "template_file", v |-> PyStr(<<"f">>)], [k |-> "data", v |-> None]>>,
          <<[k |-> "template_file", v |-> PyStr(<<"e">>)], [k |-> "data", v |-> None]>>,
          <<[k |-> "template", v |-> PyStr(<<"{", "{", "x", "}", "}">>)],
            [k |-> "data", v |-> PyInt(5)]>>,
          <<[k |-> "template", v |-> PyInt(5)]>>,
          <<[k |-> "template", v |-> None], [k |-> "template_file", v |-> None]>>,
          <<[k |-> "template_file", v |-> PyStr(<<>>)]>>,
          <<[k |-> "data", v |-> PyDict(<<>>)]>>}

NextFiles == now < MaxLoads /\ \E input_data \in FileInputs : TemplateExecute(input_data)

SpecFiles == Init /\ [][NextFiles]_vars

(***************************************************************************)
(* TextAnalysisTool (text/analysis.py)                                     *)
(***************************************************************************)
ENTITIES == <<"e", "n", "t", "i", "t", "i", "e", "s">>
KEYWORDS == <<"k", "e", "y", "w", "o", "r", "d", "s">>
SENTIMENT == <<"s", "e", "n", "t", "i", "m", "e", "n", "t">>
TOPICS == <<"t", "o", "p", "i", "c", "s">>

\* valid_operations (analysis.py 120)
valid_operations == {PyStr(ENTITIES), PyStr(KEYWORDS), PyStr(SENTIMENT), PyStr(TOPICS)}

\* a list or a dict cannot be looked up in a set: `op in valid_operations`
\* raises TypeError for it
Unhashable(value) == value.type \in {"list", "dict"}

TypeError == [exception |-> "TypeError"]

\* all(op in valid_operations for op in operations) (analysis.py 121): the
\* members are tested in order and the test stops at the first one that is
\* not a valid operation
RECURSIVE all_valid(_)
all_valid(operations) ==
    IF operations = <<>> THEN [raised |-> None, value |-> TRUE]
    ELSE IF Unhashable(Head(operations)) THEN [raised |-> TypeError, value |-> None]
    ELSE IF Head(operations) \notin valid_operations THEN [raised |-> None, value |-> FALSE]
    ELSE all_valid(Tail(operations))

\* TextAnalysisTool.validate_input (analysis.py 103-126)
text_validate_input(input_data) ==
    IF ~DictHas(input_data, "text") \/ DictGet(input_data, "text").type # "str"
    THEN [raised |-> None, value |-> FALSE]
    ELSE IF DictHas(input_data, "operations")
    THEN IF DictGet(input_data, "operations").type # "list"
         THEN [raised |-> None, value |-> FALSE]
         ELSE With(all_valid(DictGet(input_data, "operations").items), LAMBDA ok :
                  IF ok.raised # None THEN ok
                  ELSE IF ~ok.value THEN [raised |-> None, value |-> FALSE]
                  ELSE [raised |-> None, value |-> TRUE])
    ELSE [raised |-> None, value |-> TRUE]

\* a call of validate_input
TextValidateInput(input_data) ==
    /\ txt_in' = [method |-> "validate_input", arg |-> input_data]
    /\ txt_out' = text_validate_input(input_data)
    /\ UNCHANGED <<regVars, mgrVars, tplVars, apiVars, restVars>>

(***************************************************************************)
(* Validation by the text analysis tool: the inputs are dictionaries with  *)
(* or without a text (a string, empty or not, or a value of another type)  *)
(* and with or without operations (a list of at most MaxOps members, or a  *)
(* value that is no list).                                                 *)
(***************************************************************************)
MaxOps == 2

TextValues == {PyStr(<<>>), PyStr(<<"h", "i">>), PyStr(<<" ">>), PyInt(1), None,
               PyList(<<PyStr(<<"h", "i">>)>>)}

OpMembers == valid_operations \cup {PyStr(<<"s", "u", "m">>), PyStr(<<>>), PyInt(1), None,
                                    PyList(<<>>)}

RECURSIVE Lists(_, _)
Lists(S, n) ==
    IF n = 0 THEN {<<>>}
    ELSE Lists(S, n - 1) \cup {Append(l, x) : l \in Lists(S, n - 1), x \in S}

OperationsValues == {PyList(l) : l \in Lists(OpMembers, MaxOps)}
                        \cup {PyStr(SENTIMENT), None, PyDict(<<>>)}

WithText == {<<>>} \cup {<<[k |-> "text", v |-> t]>> : t \in TextValues}

ValidateInputs ==
    WithText \cup {Append(d, [k |-> "operations", v |-> o]) : d \in WithText, o \in OperationsValues}

NextValidate == txt_out = None /\ \E input_data \in ValidateInputs : TextValidateInput(input_data)

SpecValidate == Init /\ [][NextValidate]_vars

\* the lexicons of _analyze_sentiment (analysis.py 254-264)
positive_words == {
    <<"g", "o", "o", "d">>,
    <<"g", "r", "e", "a", "t">>,
    <<"e", "x", "c", "e", "l", "l", "e", "n", "t">>,
    <<"a", "m", "a", "z", "i", "n", "g">>,
    <<"w", "o", "n", "d", "e", "r", "f", "u", "l">>,
    <<"f", "a", "n", "t", "a", "s", "t", "i", "c">>,
    <<"b", "e", "s", "t">>,
    <<"h", "a", "p", "p", "y">>,
    <<"p", "l", "e", "a", "s", "e", "d">>,
    <<"l", "o", "v", "e">>,
    <<"l", "i", "k", "e">>,
    <<"e", "n", "j", "o", "y">>,
    <<"a", "w", "e", "s", "o", "m", "e">>,
    <<"b", "e", "n", "e", "f", "i", "c", "i", "a", "l">>,
    <<"b", "e", "t", "t", "e", "r">>,
    <<"o", "u", "t", "s", "t", "a", "n", "d", "i", "n", "g">>,
    <<"p", "e", "r", "f", "e", "c", "t">>,
    <<"p", "o", "s", "i", "t", "i", "v", "e">>}

negative_words == {
    <<"b", "a", "d">>,
    <<"t", "e", "r", "r", "i", "b", "l", "e">>,
    <<"h", "o", "r", "r", "i", "b", "l", "e">>,
    <<"a", "w", "f", "u", "l">>,
    <<"w", "o", "r", "s", "t">>,
    <<"p", "o", "o", "r">>,
    <<"n", "e", "g", "a", "t", "i", "v", "e">>,
    <<"h", "a", "t", "e">>,
    <<"d", "i", "s", "l", "i", "k", "e">>,
    <<"d", "i", "s", "a", "p", "p", "o", "i", "n", "t", "e", "d">>,
    <<"d", "i", "s", "a", "p", "p", "o", "i", "n", "t", "i", "n", "g">>,
    <<"p", "r", "o", "b", "l", "e", "m">>,
    <<"f", "a", "i", "l", "u", "r", "e">>,
    <<"f", "a", "i", "l">>,
    <<"f", "a", "i", "l", "e", "d">>,
    <<"w", "o", "r", "s", "e">>,
    <<"d", "i", "f", "f", "i", "c", "u", "l", "t">>,
    <<"a", "n", "g", "r", "y">>}

\* \w of the pattern [^\w\s]: a letter, a digit or the underscore
IsWordChar(c) ==
    \/ \E j \in 1..Len(LowerCase) : LowerCase[j] = c \/ UpperCase[j] = c
    \/ \E j \in 1..Len(Digits) : Digits[j] = c
    \/ c = "_"

KeepWordOrSpace(c) == IsWordChar(c) \/ IsSpace(c)

\* re.sub(r'[^\w\s]', '', text.lower()) (analysis.py 267)
normalize(text) == SelectSeq(lower(text), KeepWordOrSpace)

\* str.split(): the maximal runs of characters that are not whitespace
RECURSIVE split(_)
split(str) ==
    IF str = <<>> THEN <<>>
    ELSE IF IsSpace(Head(str)) THEN split(Tail(str))
    ELSE With(CHOOSE n \in 1..Len(str) :
                  /\ \A i \in 1..n : ~IsSpace(str[i])
                  /\ n = Len(str) \/ IsSpace(str[n + 1]),
              LAMBDA n : <<SubSeq(str, 1, n)>> \o split(SubSeq(str, n + 1, Len(str))))

\* sum(1 for word in words if word in lexicon) (analysis.py 271-272)
count_in(words, lexicon) == Cardinality({i \in 1..Len(words) : words[i] \in lexicon})

\* the quotient a / b of two integers, b > 0, kept exact
Ratio(a, b) == [num |-> a, den |-> b]

\* comparison of a quotient with the literal p / q
Greater(r, p, q) == r.num * q > p * r.den
Less(r, p, q) == r.num * q < p * r.den

\* with 1 / 20 for 0.05: the double nearest to 0.05 is also the quotient the
\* division 1 / 20 gives, and no other quotient of counts rounds to it
sentiment_label_inclusive(compound) ==
    IF ~Less(compound, 5, 100) THEN "positive"
    ELSE IF ~Greater(compound, -5, 100) THEN "negative"
    ELSE "neutral"

\* the label of a compound score (analysis.py 288-293)
sentiment_label(compound) ==
    IF Greater(compound, 5, 100) THEN "positive"
    ELSE IF Less(compound, -5, 100) THEN "negative"
    ELSE "neutral"

\* the scores (analysis.py 276-285)
sentiment_scores(positive_count, negative_count, total_count) ==
    IF total_count > 0
    THEN [positive |-> Ratio(positive_count, total_count),
          negative |-> Ratio(negative_count, total_count),
          compound |-> Ratio(positive_count - negative_count, total_count)]
    ELSE [positive |-> Ratio(0, 1), negative |-> Ratio(0, 1), compound |-> Ratio(0, 1)]

sentiment_of_words(words) ==
    With(sentiment_scores(count_in(words, positive_words), count_in(words, negative_words),
                          Len(words)),
         LAMBDA scores :
            [label |-> sentiment_label(scores.compound),
             scores |-> scores,
             word_counts |-> [positive |-> count_in(words, positive_words),
                              negative |-> count_in(words, negative_words),
                              total |-> Len(words)]])

\* TextAnalysisTool._analyze_sentiment (analysis.py 241-307)
analyze_sentiment(text) == sentiment_of_words(split(normalize(text)))

\* a call of _analyze_sentiment
AnalyzeSentiment(text) ==
    /\ txt_in' = [method |-> "_analyze_sentiment", arg |-> text]
    /\ txt_out' = analyze_sentiment(text)
    /\ UNCHANGED <<regVars, mgrVars, tplVars, apiVars, restVars>>

(***************************************************************************)
(* Sentiment of short texts: at most MaxWords tokens separated by blanks,  *)
(* and one or two sentiment words followed by up to MaxPad plain words.    *)
(* A token is spelled as it would be in a text (capitals, punctuation);    *)
(* words, pos and neg say what it contributes once normalised.             *)
(***************************************************************************)
MaxWords == 3
MaxPad == 20

Plain == [text |-> <<"o", "k">>, words |-> 1, pos |-> 0, neg |-> 0]

Tokens ==
    {[text |-> <<"g", "o", "o", "d">>, words |-> 1, pos |-> 1, neg |-> 0],
     [text |-> <<"B", "a", "d", "!">>, words |-> 1, pos |-> 0, neg |-> 1],
     [text |-> <<"l", "i", "k", "e", "-", "l", "y">>, words |-> 1, pos |-> 0, neg |-> 0],
     [text |-> <<"-">>, words |-> 0, pos |-> 0, neg |-> 0],
     Plain}

RECURSIVE Repeat(_, _)
Repeat(x, n) == IF n = 0 THEN <<>> ELSE <<x>> \o Repeat(x, n - 1)

TokenSeqs ==
    Lists(Tokens, MaxWords)
        \cup {l \o Repeat(Plain, n) : l \in Lists({t \in Tokens : t.pos + t.neg = 1}, 2), n \in 0..MaxPad}

SentenceOf(tokens) == Join([i \in 1..Len(tokens) |-> tokens[i].text], <<" ">>)

SentimentTexts == {SentenceOf(tokens) : tokens \in TokenSeqs}

NextSentiment == txt_out = None /\ \E text \in SentimentTexts : AnalyzeSentiment(text)

SpecSentiment == Init /\ [][NextSentiment]_vars

(***************************************************************************)
(* OpenAIClient._make_request (models/openai.py 262-320)                   *)
(*                                                                         *)
(* api holds the locals of the one call (attempts, last_error), the        *)
(* responses received so far and the sleeps made so far.  Times are in     *)
(* tenths of a second, so that 0.1 * attempts is a whole number.           *)
(***************************************************************************)
\* max_retries: int = 3 (openai.py 71)
max_retries_default == 3

Tenths(seconds) == 10 * seconds

Exception(name) == [exception |-> name]

\* int(s) for a string of decimal digits; any other string drawn here
\* raises ValueError
IsDecimal(chars) ==
    /\ chars # <<>>
    /\ \A i \in 1..Len(chars) : \E j \in 1..Len(Digits) : Digits[j] = chars[i]

RECURSIVE int(_)
int(chars) ==
    IF chars = <<>> THEN 0
    ELSE 10 * int(SubSeq(chars, 1, Len(chars) - 1))
            + (CHOOSE j \in 1..Len(Digits) : Digits[j] = chars[Len(chars)]) - 1

\* response.headers.get("retry-after", "1") (openai.py 299)
retry_after_header(response) ==
    IF response.retry_after = None THEN <<"1">> ELSE response.retry_after.s

\* while attempts < self.max_retries (openai.py 284), and the loop one
\* attempt too long
loop_condition_inclusive(attempts, max_retries) == attempts =< max_retries

loop_condition(attempts, max_retries) == attempts < max_retries

\* 2 ** attempts + (attempts * 0.1) (openai.py 315), and the backoff
\* without its second term
backoff_time_no_jitter(attempts) == Tenths(2 ^ attempts)

backoff_time(attempts) == Tenths(2 ^ attempts) + attempts

\* the end of an iteration: back to the head of the loop, or out of it to
\* the raise of line 320
loop_head(state) ==
    IF loop_condition(state.attempts, state.max_retries) THEN state
    ELSE [state EXCEPT !.pc = "raised",
                       !.outcome = [raised |-> "Failed after retries",
                                    last_error |-> state.last_error]]

\* except Exception as e (openai.py 310-317)
on_exception(state, e) ==
    loop_head([state EXCEPT
        !.last_error = e,
        !.attempts = state.attempts + 1,
        !.sleeps = Append(state.sleeps, [tenths |-> backoff_time(state.attempts + 1),
                                         backoff |-> TRUE])])

\* the 429 branch (openai.py 298-303)
on_rate_limit(state, response) ==
    IF ~IsDecimal(retry_after_header(response)) THEN on_exception(state, Exception("ValueError"))
    ELSE loop_head([state EXCEPT
        !.sleeps = Append(state.sleeps,
                          [tenths |-> Tenths(int(retry_after_header(response))),
                           backoff |-> FALSE]),
        !.attempts = state.attempts + 1])

\* what one iteration of the loop does with the outcome of client.request
\* (openai.py 285-317): a transport exception, or a response
on_response(state, response) ==
    IF response.exception # None THEN on_exception(state, response.exception)
    ELSE IF response.status_code = 200
    THEN IF response.json = None THEN on_exception(state, Exception("JSONDecodeError"))
         ELSE [state EXCEPT !.pc = "returned", !.outcome = [returned |-> response.json]]
    ELSE IF response.status_code = 429 THEN on_rate_limit(state, response)
    ELSE IF response.json = None THEN on_exception(state, Exception("JSONDecodeError"))
    ELSE on_exception(state, Exception("OpenAI API error"))

\* the call: attempts = 0, last_error = None, and the first test of the loop
make_request(max_retries) ==
    loop_head([pc |-> "loop", max_retries |-> max_retries, attempts |-> 0, requests |-> <<>>,
               sleeps |-> <<>>, last_error |-> None, outcome |-> None])

MakeRequest(max_retries) ==
    /\ api.pc = "idle"
    /\ api' = make_request(max_retries)
    /\ UNCHANGED <<regVars, mgrVars, tplVars, txtVars, restVars>>

\* one iteration: the request is issued, its outcome handled and the sleep
\* that follows a failure made
Attempt(response) ==
    /\ api.pc = "loop"
    /\ api' = on_response([api EXCEPT !.requests = Append(api.requests, response)], response)
    /\ UNCHANGED <<regVars, mgrVars, tplVars, txtVars, restVars>>

(***************************************************************************)
(* One call of _make_request by a client built with max_retries between 0  *)
(* and MaxRetries, against a server that answers each request with any of  *)
(* Responses: 200 with a JSON body or with a body that is not JSON, 429    *)
(* without a retry-after header, with a number of seconds or with another  *)
(* value (the header may also carry a date), an error status with or       *)
(* without a JSON body, or no response at all.                             *)
(***************************************************************************)
MaxRetries == 3

Response(status_code, json, retry_after) ==
    [exception |-> None, status_code |-> status_code, json |-> json, retry_after |-> retry_after]

BODY == PyDict(<<[k |-> "id", v |-> PyInt(1)]>>)
ERROR_BODY == PyDict(<<[k |-> "error", v |-> PyDict(<<>>)]>>)

RetryAfterValues ==
    {None, PyStr(<<"0">>), PyStr(<<"2">>), PyStr(<<"3", "0">>), PyStr(<<"s", "o", "o", "n">>)}

Responses ==
    {Response(200, BODY, None), Response(200, None, None)}
        \cup {Response(429, ERROR_BODY, h) : h \in RetryAfterValues}
        \cup {Response(500, ERROR_BODY, None), Response(502, None, None)}
        \cup {[exception |-> Exception("ConnectError"), status_code |-> 0, json |-> None,
               retry_after |-> None]}

NextApi ==
    \/ \E max_retries \in 0..MaxRetries : MakeRequest(max_retries)
    \/ \E response \in Responses : Attempt(response)

SpecApi == Init /\ [][NextApi]_vars

(***************************************************************************)
(* SpecRecord: up to MaxRuns calls of execute_tool one after the other, of *)
(* a registered or an unknown tool, with every outcome of validate_input   *)
(* and execute, and clear_history between calls.                           *)
(***************************************************************************)
MaxRuns == 2

KeyName == <<"n", "a", "m", "e">>

RecordInputs == {<<[k |-> api_key, v |-> PyStr(<<"s", "k", "-", "1">>)]>>,
                 <<[k |-> KeyName, v |-> PyStr(<<"x">>)]>>}

NextRecord ==
    \/ \E inst \in MgrInstances :
          /\ Setup
          /\ RegisterTool("a", inst) /\ UNCHANGED <<mgrVars, tplVars, txtVars, apiVars, restVars>>
    \/ \E n \in MgrNames, d \in RecordInputs :
          /\ now < MaxRuns
          /\ CallExecuteTool(n, d) /\ UNCHANGED <<regVars, tplVars, txtVars, apiVars, restVars>>
    \/ \E i \in 1..Len(tasks) : TaskStart(i) /\ UNCHANGED <<regVars, tplVars, txtVars, apiVars, restVars>>
    \/ \E i \in 1..Len(tasks), v \in ValidateOutcomes :
          TaskValidated(i, v) /\ UNCHANGED <<regVars, tplVars, txtVars, apiVars, restVars>>
    \/ \E i \in 1..Len(tasks), e \in ExecuteOutcomes :
          TaskExecuted(i, e) /\ UNCHANGED <<regVars, tplVars, txtVars, apiVars, restVars>>
    \/ ReturnExecuteTool /\ UNCHANGED <<regVars, tplVars, txtVars, apiVars, restVars>>
    \/ /\ Idle
       /\ call.kind # "none"
       /\ execution_history # <<>>
       /\ ClearHistory /\ UNCHANGED <<regVars, tplVars, txtVars, apiVars, restVars>>

SpecRecord == Init /\ [][NextRecord]_vars

(***************************************************************************)
(* _process_template step by step (template_engine.py 207-229): the three  *)
(* passes in their order, one step for each iteration of the `while True`  *)
(* of the first two and one for _process_variables.  tpl_run holds the     *)
(* pass, the number of the iteration and the template as it stands.        *)
(***************************************************************************)
\* the test that ends a pass (template_engine.py 320 and 379), and a pass
\* that stops after its first iteration
fixed_point_first_iteration(new_template, template) == TRUE

fixed_point(new_template, template) == new_template = template

\* one iteration of the loop of _process_conditionals (template_engine.py
\* 304 and 317)
conditionals_iteration(template, data) ==
    re_sub_cond("if", re_sub_cond("if_else", template, data, 1), data, 1)

\* one iteration of the loop of _process_loops (template_engine.py 376)
loops_iteration(template, data) == re_sub_each(template, data, 1)

\* tpl_run after an iteration that gave new_template: the next iteration
\* of the same pass, or the first step of the pass that follows
iterated(run, new_template, following) ==
    IF fixed_point(new_template, run.template)
    THEN [run EXCEPT !.pc = following, !.iteration = 1]
    ELSE [run EXCEPT !.template = new_template, !.iteration = run.iteration + 1]

ProcessTemplate(template, data) ==
    /\ tpl_run.pc = "idle"
    /\ tpl_run' = [pc |-> "conditionals", source |-> template, template |-> template,
                   data |-> data, iteration |-> 1]
    /\ UNCHANGED <<regVars, mgrVars, tpl_in, tpl_out, template_cache, txtVars, apiVars, restVars>>

ConditionalsIteration ==
    /\ tpl_run.pc = "conditionals"
    /\ tpl_run' = iterated(tpl_run, conditionals_iteration(tpl_run.template, tpl_run.data),
                           "loops")
    /\ UNCHANGED <<regVars, mgrVars, tpl_in, tpl_out, template_cache, txtVars, apiVars, restVars>>

LoopsIteration ==
    /\ tpl_run.pc = "loops"
    /\ tpl_run' = iterated(tpl_run, loops_iteration(tpl_run.template, tpl_run.data),
                           "variables")
    /\ UNCHANGED <<regVars, mgrVars, tpl_in, tpl_out, template_cache, txtVars, apiVars, restVars>>

VariablesPass ==
    /\ tpl_run.pc = "variables"
    /\ tpl_run' = [tpl_run EXCEPT !.pc = "done",
                                  !.template = process_variables(tpl_run.template, tpl_run.data)]
    /\ UNCHANGED <<regVars, mgrVars, tpl_in, tpl_out, template_cache, txtVars, apiVars, restVars>>

(***************************************************************************)
(* SpecOrder: one run of _process_template on a template that nests        *)
(* conditionals, loops and variables, with data whose list a has at most   *)
(* MaxElems elements (scalars, and mappings that carry a flag p of their   *)
(* own) and whose flags p and q are true, false or absent.                 *)
(***************************************************************************)
MaxElems == 2

KeyP == <<"p">>
KeyQ == <<"q">>

\* a conditional inside the body of a loop:
\* {{#each a}}{{#if p}}Y{{/if}}Z{{/each}}
IfInEach ==
    <<"{", "{", "#", "e", "a", "c", "h", " ", "a", "}", "}", "{", "{", "#", "i", "f", " ",
      "p", "}", "}", "Y", "{", "{", "/", "i", "f", "}", "}", "Z", "{", "{", "/", "e", "a",
      "c", "h", "}", "}">>

\* a conditional inside a conditional: the pass needs two iterations:
\* {{#if p}}{{#if q}}X{{/if}}{{/if}}{{x}}
IfInIf ==
    <<"{", "{", "#", "i", "f", " ", "p", "}", "}", "{", "{", "#", "i", "f", " ", "q", "}",
      "}", "X", "{", "{", "/", "i", "f", "}", "}", "{", "{", "/", "i", "f", "}", "}", "{",
      "{", "x", "}", "}">>

\* a variable before a loop over scalars:
\* {{x}}{{#each a}}{{item.this}};{{/each}}
VarThenEach ==
    <<"{", "{", "x", "}", "}", "{", "{", "#", "e", "a", "c", "h", " ", "a", "}", "}", "{",
      "{", "i", "t", "e", "m", ".", "t", "h", "i", "s", "}", "}", ";", "{", "{", "/", "e",
      "a", "c", "h", "}", "}">>

\* a loop inside a conditional:
\* {{x}}{{#if p}}{{#each a}}Y{{/each}}{{/if}}
EachInIf ==
    <<"{", "{", "x", "}", "}", "{", "{", "#", "i", "f", " ", "p", "}", "}", "{", "{", "#",
      "e", "a", "c", "h", " ", "a", "}", "}", "Y", "{", "{", "/", "e", "a", "c", "h", "}",
      "}", "{", "{", "/", "i", "f", "}", "}">>

\* a loop inside a loop:
\* {{#each a}}{{#each b}}Y{{/each}}{{/each}}
EachInEach ==
    <<"{", "{", "#", "e", "a", "c", "h", " ", "a", "}", "}", "{", "{", "#", "e", "a", "c",
      "h", " ", "b", "}", "}", "Y", "{", "{", "/", "e", "a", "c", "h", "}", "}", "{", "{",
      "/", "e", "a", "c", "h", "}", "}">>

\* an if-only block, an if/else block and a loop inside a loop:
\* {{#each a}}{{#if p}}A{{/if}}{{#if q}}B{{else}}C{{/if}}{{#each b}}Y{{/each}}{{/each}}
IfsAndEachInEach ==
    <<"{", "{", "#", "e", "a", "c", "h", " ", "a", "}", "}", "{", "{", "#", "i", "f", " ",
      "p", "}", "}", "A", "{", "{", "/", "i", "f", "}", "}", "{", "{", "#", "i", "f", " ",
      "q", "}", "}", "B", "{", "{", "e", "l", "s", "e", "}", "}", "C", "{", "{", "/", "i",
      "f", "}", "}", "{", "{", "#", "e", "a", "c", "h", " ", "b", "}", "}", "Y", "{", "{",
      "/", "e", "a", "c", "h", "}", "}", "{", "{", "/", "e", "a", "c", "h", "}", "}">>

OrderTemplates == {IfInEach, IfInIf, VarThenEach, EachInIf, EachInEach, IfsAndEachInEach}

OrderElements == {PyInt(1), PyDict(<<[k |-> KeyP, v |-> PyBool(TRUE)]>>),
                  PyDict(<<[k |-> KeyP, v |-> PyBool(FALSE)]>>)}

OrderFlags ==
    {<<>>,
     <<[k |-> KeyP, v |-> PyBool(TRUE)]>>,
     <<[k |-> KeyP, v |-> PyBool(TRUE)], [k |-> KeyQ, v |-> PyBool(TRUE)]>>,
     <<[k |-> KeyP, v |-> PyBool(FALSE)], [k |-> KeyQ, v |-> PyBool(TRUE)]>>}

OrderData ==
    {flags \o <<[k |-> KeyA, v |-> PyList(elements)],
                [k |-> KeyB, v |-> PyList(<<PyInt(1)>>)],
                [k |-> KeyX, v |-> PyStr(<<"v">>)]>> :
        flags \in OrderFlags, elements \in Lists(OrderElements, MaxElems)}

NextOrder ==
    \/ \E template \in OrderTemplates, data \in OrderData : ProcessTemplate(template, data)
    \/ ConditionalsIteration
    \/ LoopsIteration
    \/ VariablesPass

SpecOrder == Init /\ [][NextOrder]_vars

(***************************************************************************)
(* SpecBlocks: one call of TemplateEngineTool.execute on a template made   *)
(* of one to MaxBlocks conditional blocks one after the other, each in the *)
(* if-only or the if/else form, none inside another.                       *)
(***************************************************************************)
MaxBlocks == 2

SeqBlocks ==
    {c \in CondCases :
        /\ c.pre = <<>>
        /\ c.cond.text \in {<<" ", "a">>, <<" ", "b">>}
        /\ c.then.text \in {<<"Y">>, <<"{", "{", "x", "}", "}">>}
        /\ IF c.has_else THEN c.else.text = <<"N">> ELSE c.else.text = <<>>}

RECURSIVE BlocksText(_)
BlocksText(blocks) ==
    IF blocks = <<>> THEN <<>> ELSE CondText(Head(blocks)) \o BlocksText(Tail(blocks))

\* a and b true, false or absent
BlocksData ==
    {<<[k |-> KeyX, v |-> PyStr(<<"5">>)]>>,
     <<[k |-> KeyA, v |-> PyBool(TRUE)], [k |-> KeyX, v |-> PyStr(<<"5">>)]>>,
     <<[k |-> KeyA, v |-> PyBool(TRUE)], [k |-> KeyB, v |-> PyBool(TRUE)]>>,
     <<[k |-> KeyA, v |-> PyBool(FALSE)], [k |-> KeyB, v |-> PyBool(TRUE)],
       [k |-> KeyX, v |-> PyStr(<<"5">>)]>>}

BlocksInputs ==
    {<<[k |-> "template", v |-> PyStr(BlocksText(blocks))], [k |-> "data", v |-> PyDict(d)]>> :
        blocks \in PieceSeqs(SeqBlocks, MaxBlocks) \ {<<>>}, d \in BlocksData}

NextBlocks == tpl_out = None /\ \E input_data \in BlocksInputs : TemplateExecute(input_data)

SpecBlocks == Init /\ [][NextBlocks]_vars

(***************************************************************************)
(* SpecTerm: one run of _process_template, step by step, on the templates  *)
(* of SpecOrder and on two templates whose loop expansion puts markers     *)
(* together, with data whose values hold no marker: a is a list of up to   *)
(* MaxCopies numbers, or a list of strings none of which holds "{{" or     *)
(* "}}".  The run is followed for at most MaxIterations iterations of the  *)
(* loop pass.                                                              *)
(***************************************************************************)
MaxCopies == 3
MaxIterations == 4

\* the copies of the body join up to closers:
\* {{#each a}}h}}X{{/eac{{/each}}
JoinedCloser ==
    <<"{", "{", "#", "e", "a", "c", "h", " ", "a", "}", "}", "h", "}", "}", "X", "{", "{",
      "/", "e", "a", "c", "{", "{", "/", "e", "a", "c", "h", "}", "}">>

\* the body renders the element:
\* {{#each a}}{{item.this}}{{/each}}
ElementLoop ==
    <<"{", "{", "#", "e", "a", "c", "h", " ", "a", "}", "}", "{", "{", "i", "t", "e", "m",
      ".", "t", "h", "i", "s", "}", "}", "{", "{", "/", "e", "a", "c", "h", "}", "}">>

\* strings that spell  X{{#each a}}{{item.this}}{{/each}}  when joined
Fragments ==
    <<PyStr(<<"X", "{">>),
      PyStr(<<"{", "#", "e", "a", "c", "h", " ", "a", "}">>),
      PyStr(<<"}", "{">>),
      PyStr(<<"{", "i", "t", "e", "m", ".", "t", "h", "i", "s", "}">>),
      PyStr(<<"}", "{">>),
      PyStr(<<"{", "/", "e", "a", "c", "h", "}">>),
      PyStr(<<"}">>)>>

TermTemplates == OrderTemplates \cup {JoinedCloser, ElementLoop}

TermData ==
    {<<[k |-> KeyP, v |-> PyBool(TRUE)], [k |-> KeyQ, v |-> PyBool(TRUE)],
       [k |-> KeyA, v |-> PyList(elements)],
       [k |-> KeyB, v |-> PyList(<<PyInt(1)>>)],
       [k |-> KeyX, v |-> PyStr(<<"v">>)]>> :
        elements \in {[n \in 1..c |-> PyInt(n)] : c \in 0..MaxCopies} \cup {Fragments}}

NextTerm ==
    \/ \E template \in TermTemplates, data \in TermData : ProcessTemplate(template, data)
    \/ ConditionalsIteration
    \/ tpl_run.iteration <= MaxIterations /\ LoopsIteration
    \/ VariablesPass

SpecTerm == Init /\ [][NextTerm]_vars

(***************************************************************************)
(* SpecCache: a TemplateEngineTool built with a template_cache_size of at  *)
(* most MaxCacheSize, and up to MaxLoads calls of _load_template on it.    *)
(***************************************************************************)
MaxCacheSize == 2

\* mutant: a full cache takes the entry as well
load_template_in_full(size, cache, template_file) ==
    IF DictHas(cache, template_file)
    THEN [raised |-> None, value |-> DictGet(cache, template_file), cache |-> cache,
          opened |-> FALSE]
    ELSE IF DictHas(TemplateDir, template_file)
    THEN [raised |-> None, value |-> DictGet(TemplateDir, template_file),
          cache |-> DictSet(cache, template_file, DictGet(TemplateDir, template_file)),
          opened |-> TRUE]
    ELSE [raised |-> ToolError("Template file not found", "TEMPLATE_NOT_FOUND", NoDetails),
          value |-> None, cache |-> cache, opened |-> TRUE]

\* _load_template (template_engine.py 164-205) on a tool whose
\* template_cache_size is size: [raised, value, cache, opened], opened
\* telling whether open() was called
load_template_in(size, cache, template_file) ==
    IF DictHas(cache, template_file)
    THEN [raised |-> None, value |-> DictGet(cache, template_file), cache |-> cache,
          opened |-> FALSE]
    ELSE IF DictHas(TemplateDir, template_file)
    THEN [raised |-> None, value |-> DictGet(TemplateDir, template_file),
          cache |-> IF Len(cache) < size
                    THEN DictSet(cache, template_file, DictGet(TemplateDir, template_file))
                    ELSE cache,
          opened |-> TRUE]
    ELSE IF template_file \in Unreadable
    THEN [raised |-> ToolError("Failed to load template file", "TEMPLATE_LOAD_ERROR",
                               <<[k |-> "error_type", v |-> "IsADirectoryError"]>>),
          value |-> None, cache |-> cache, opened |-> TRUE]
    ELSE [raised |-> ToolError("Template file not found", "TEMPLATE_NOT_FOUND", NoDetails),
          value |-> None, cache |-> cache, opened |-> TRUE]

\* TemplateEngineTool({"template_cache_size": size}) (template_engine.py 25-39)
TemplateInit(size) ==
    /\ tpl_in = None
    /\ tool_cache_size' = size
    /\ template_cache' = <<>>
    /\ UNCHANGED <<regVars, mgrVars, tpl_in, tpl_out, tpl_run, txtVars, apiVars, objects, svcVars>>

\* one call of tool._load_template(template_file)
LoadTemplate(template_file) ==
    With(load_template_in(tool_cache_size, template_cache, template_file), LAMBDA out :
        /\ tpl_in' = PyStr(template_file)
        /\ tpl_out' = [raised |-> out.raised, value |-> out.value, opened |-> out.opened]
        /\ template_cache' = out.cache
        /\ now' = now + 1
        /\ UNCHANGED <<regVars, execution_history, tool_state, tasks, call, ret, tpl_run,
                       txtVars, apiVars, tool_cache_size, objects, svcVars>>)

NextCache ==
    \/ \E size \in 0..MaxCacheSize : TemplateInit(size)
    \/ now < MaxLoads /\ \E template_file \in TplFiles : LoadTemplate(template_file)

SpecCache == Init /\ [][NextCache]_vars

(***************************************************************************)
(* SpecGet: the calls of SpecRecord, and get_execution_history with no     *)
(* limit or a limit of 0..MaxLimit whenever no call is running.            *)
(***************************************************************************)
MaxLimit == 3

\* history[-limit:] of Python: -0 is 0, so the slice starts at the first
\* record when limit is 0, and at record -limit when limit is negative
slice_from_minus(history, limit) ==
    IF limit = 0 THEN history
    ELSE IF limit > 0
    THEN SubSeq(history, IF limit >= Len(history) THEN 1 ELSE Len(history) - limit + 1,
                Len(history))
    ELSE SubSeq(history, (0 - limit) + 1, Len(history))

\* ToolManager.get_execution_history (manager.py 176-189); limit is None
\* or an int
get_execution_history(history, limit) ==
    IF limit.type = "NoneType" THEN history
    ELSE IF limit.n > Len(history) THEN history
    ELSE slice_from_minus(history, limit.n)

\* manager.get_execution_history(limit)
GetExecutionHistory(limit) ==
    /\ Idle
    /\ call' = [kind |-> "get_execution_history", requests |-> <<>>, limit |-> limit,
                status |-> "returned"]
    /\ ret' = PyList(get_execution_history(execution_history, limit))
    /\ UNCHANGED <<execution_history, now, tool_state, tasks>>

NextGet ==
    \/ \E inst \in MgrInstances :
          /\ Setup
          /\ RegisterTool("a", inst) /\ UNCHANGED <<mgrVars, tplVars, txtVars, apiVars, restVars>>
    \/ \E n \in MgrNames, d \in RecordInputs :
          /\ now < MaxRuns
          /\ CallExecuteTool(n, d) /\ UNCHANGED <<regVars, tplVars, txtVars, apiVars, restVars>>
    \/ \E i \in 1..Len(tasks) : TaskStart(i) /\ UNCHANGED <<regVars, tplVars, txtVars, apiVars, restVars>>
    \/ \E i \in 1..Len(tasks), v \in ValidateOutcomes :
          TaskValidated(i, v) /\ UNCHANGED <<regVars, tplVars, txtVars, apiVars, restVars>>
    \/ \E i \in 1..Len(tasks), e \in ExecuteOutcomes :
          TaskExecuted(i, e) /\ UNCHANGED <<regVars, tplVars, txtVars, apiVars, restVars>>
    \/ ReturnExecuteTool /\ UNCHANGED <<regVars, tplVars, txtVars, apiVars, restVars>>
    \/ \E limit \in {None} \cup {PyInt(n) : n \in 0..MaxLimit} :
          /\ call.kind # "none"
          /\ GetExecutionHistory(limit)
          /\ UNCHANGED <<regVars, tplVars, txtVars, apiVars, restVars>>

SpecGet == Init /\ [][NextGet]_vars

(***************************************************************************)
(* SpecAlias: up to MaxRuns calls of execute_tool, each run to its end,    *)
(* with the mappings held as objects: the caller's input_data is one       *)
(* object, and what _sanitize_data returns is the object stored in the     *)
(* history record.                                                         *)
(***************************************************************************)
\* mutant: sanitized = data, the same object
copy_same_object(heap, ref) == [objects |-> heap, ref |-> ref]

\* data.copy() (manager.py 231): a new object with the items of object ref
copy(heap, ref) == [objects |-> Append(heap, heap[ref]), ref |-> Len(heap) + 1]

\* _sanitize_data (manager.py 220-245) on object ref: the objects afterwards
\* and the reference it returns
sanitize_data_at(heap, ref) ==
    With(copy(heap, ref), LAMBDA sanitized :
        [objects |-> [sanitized.objects EXCEPT
                         ![sanitized.ref] = sanitize_data(sanitized.objects[sanitized.ref])],
         ref |-> sanitized.ref])

\* _record_execution (manager.py 195-218) on object ref
record_execution_at(heap, history, tool_name, ref, result) ==
    With(sanitize_data_at(heap, ref), LAMBDA sanitized :
    With(Append(history, [tool_name |-> tool_name,
                          input_data |-> sanitized.objects[sanitized.ref],
                          result |-> to_dict(result),
                          timestamp |-> result.timestamp]),
         LAMBDA appended :
        [objects |-> sanitized.objects, ref |-> sanitized.ref,
         history |-> IF Len(appended) > max_history_size
                     THEN SubSeq(appended, Len(appended) - max_history_size + 1,
                                 Len(appended))
                     ELSE appended]))

\* what a method of the tool is handed: the reference and the items behind it
Handed(method, heap, ref) == <<[by |-> method, ref |-> ref, data |-> heap[ref]]>>

\* execute_tool (manager.py 48-100) run to its end at time t on object ref,
\* validate_input ending as v and execute as e
execute_tool_at(heap, history, registry, tool_name, ref, v, e, t) ==
    With(get_tool(registry, tool_name), LAMBDA found :
    With(IF found.raised # None THEN found.raised ELSE validate_raises(v, tool_name),
         LAMBDA raised :
    With(IF raised # None THEN error_result(tool_name, raised, t)
         ELSE CASE e = "success" ->
                     ToolResult(SUCCESS, <<[k |-> "by", v |-> found.value]>>, None,
                                PyFloat("measured"), <<>>, t)
                [] e = "timed" ->
                     ToolResult(SUCCESS, <<[k |-> "by", v |-> found.value]>>, None,
                                PyFloat("tool"), <<>>, t)
                [] e = "tool_error" -> error_result(tool_name, ToolRaised, t)
                [] e = "exception" -> error_result(tool_name, OtherRaised, t),
         LAMBDA result :
    With(record_execution_at(heap, history, tool_name, ref, result), LAMBDA recorded :
        [result |-> result,
         tool |-> IF raised = None /\ e = "success" THEN found.value ELSE None,
         received |-> (IF found.raised = None
                       THEN Handed("validate_input", heap, ref) ELSE <<>>)
                      \o (IF raised = None THEN Handed("execute", heap, ref) ELSE <<>>),
         objects |-> recorded.objects,
         history |-> recorded.history,
         recorded |-> recorded.ref]))))

\* input_data = {...}; await manager.execute_tool(tool_name, input_data)
ExecuteToolAt(tool_name, input_data, v, e) ==
    /\ Idle
    /\ With(execute_tool_at(Append(objects, input_data), execution_history, tools,
                            tool_name, Len(objects) + 1, v, e, now + 1),
            LAMBDA out :
        /\ call' = [kind |-> "execute_tool",
                    requests |-> <<[tool_name |-> tool_name, input_data |-> input_data]>>,
                    status |-> "returned", ref |-> Len(objects) + 1,
                    received |-> out.received, recorded |-> out.recorded]
        /\ objects' = out.objects
        /\ execution_history' = out.history
        /\ ret' = out.result
        /\ tool_state' = IF out.tool # None
                         THEN [tool_state EXCEPT ![out.tool] = @ + 1]
                         ELSE tool_state)
    /\ now' = now + 1
    /\ UNCHANGED <<regVars, tasks, tplVars, txtVars, apiVars, tool_cache_size, svcVars>>

NextAlias ==
    \/ \E inst \in MgrInstances :
          /\ Setup
          /\ RegisterTool("a", inst) /\ UNCHANGED <<mgrVars, tplVars, txtVars, apiVars, restVars>>
    \/ \E n \in MgrNames, d \in RecordInputs, v \in ValidateOutcomes, e \in ExecuteOutcomes :
          /\ now < MaxRuns
          /\ ExecuteToolAt(n, d, v, e)

SpecAlias == Init /\ [][NextAlias]_vars

(***************************************************************************)
(* SpecBatch: the history is filled by calls of execute_tool that succeed; *)
(* once it is within MaxParallel records of max_history_size, batches of   *)
(* up to MaxParallel named requests go to execute_tools_parallel, for a    *)
(* registered or an unknown tool, validate_input accepting or refusing and *)
(* execute returning or raising, the coroutines interleaved in every way.  *)
(***************************************************************************)
MaxParallel == 2

ParallelBatches ==
    UNION {[1..n -> [tool_name : MgrNames, input_data : MgrInputs]] : n \in 1..MaxParallel}

InBatch == call.kind = "execute_tools_parallel"

NextBatch ==
    \/ \E inst \in MgrInstances :
          /\ Setup
          /\ RegisterTool("a", inst) /\ UNCHANGED <<mgrVars, tplVars, txtVars, apiVars, restVars>>
    \/ /\ now + 1 <= MaxCalls
       /\ CallExecuteTool(HistRequest.tool_name, HistRequest.input_data)
       /\ UNCHANGED <<regVars, tplVars, txtVars, apiVars, restVars>>
    \/ \E reqs \in ParallelBatches :
          /\ Len(execution_history) >= max_history_size - MaxParallel
          /\ now + Len(reqs) <= MaxCalls
          /\ CallExecuteToolsParallel(reqs)
          /\ UNCHANGED <<regVars, tplVars, txtVars, apiVars, restVars>>
    \/ \E i \in 1..Len(tasks) : TaskStart(i) /\ UNCHANGED <<regVars, tplVars, txtVars, apiVars, restVars>>
    \/ \E i \in 1..Len(tasks), v \in {"true", "false"} :
          /\ InBatch \/ v = "true"
          /\ TaskValidated(i, v) /\ UNCHANGED <<regVars, tplVars, txtVars, apiVars, restVars>>
    \/ \E i \in 1..Len(tasks), e \in {"success", "exception"} :
          /\ InBatch \/ e = "success"
          /\ TaskExecuted(i, e) /\ UNCHANGED <<regVars, tplVars, txtVars, apiVars, restVars>>
    \/ ReturnExecuteTool /\ UNCHANGED <<regVars, tplVars, txtVars, apiVars, restVars>>
    \/ ReturnExecuteToolsParallel /\ UNCHANGED <<regVars, tplVars, txtVars, apiVars, restVars>>

SpecBatch == Init /\ [][NextBatch]_vars

(***************************************************************************)
(* The agent orchestrator (agent_orchestrator.py).  Its endpoints have no  *)
(* await before their return, so each is one step of the event loop; the   *)
(* monitor_agent task yields at its sleep.  The tables are functions from  *)
(* the key to the row, NoRow where there is none; datetime.now() is the    *)
(* counter now.                                                            *)
(***************************************************************************)
At(t) == [time |-> t]

HTTPException(status_code) == [type |-> "HTTPException", status_code |-> status_code]

\* .single().execute() when no row matches: the client library, which is
\* not part of the repository, hands back no data or raises
NoRowsOutcomes == {"no_data", "raises"}

monitoring_duration == 3600
check_interval == 10

\* the metrics launch_agent stores in agent_states (agent_orchestrator.py 103-108)
InitialMetrics == [progress |-> 0, tasks_completed |-> 0]

\* launch_agent (agent_orchestrator.py 57-125) for the fresh id agent_id
OrchestratorLaunchAgent(agent_id) ==
    /\ orchestrated_agents[agent_id] = NoRow
    /\ agent_states[agent_id] = NoRow
    /\ orchestrated_agents' =
          [orchestrated_agents EXCEPT ![agent_id] =
              [status |-> "initializing", metrics |-> None, updated_at |-> At(now + 1)]]
    /\ agent_states' =
          [agent_states EXCEPT ![agent_id] =
              [status |-> "initializing", metrics |-> InitialMetrics, end_time |-> None]]
    /\ monitors' = [monitors EXCEPT ![agent_id] = [pc |-> "polling", polls |-> 0]]
    /\ svc_response' = [op |-> "launch_agent", agent_id |-> agent_id, raised |-> None,
                        returned |-> [status |-> "launched"]]
    /\ now' = now + 1
    /\ UNCHANGED <<agent_tasks, init_tasks>>

\* the loop over the running and pending tasks of the agent
\* (agent_orchestrator.py 327-344): every row with the task_id of such a
\* task is updated
stop_tasks(tasks_table, agent_id, t) ==
    [task_id \in DOMAIN tasks_table |->
        IF /\ tasks_table[task_id] # NoRow
           /\ tasks_table[task_id].agent_id = agent_id
           /\ tasks_table[task_id].status \in {"running", "pending"}
        THEN [tasks_table[task_id] EXCEPT !.status = "stopped", !.completed_at = At(t),
                                          !.error = "Task stopped due to agent shutdown"]
        ELSE tasks_table[task_id]]

\* mutant: the status read at the start is not looked at
orchestrator_stop_agent_always(orchestrated, states, tasks_table, agent_id, no_rows, t) ==
    IF orchestrated[agent_id] = NoRow
    THEN [orchestrated |-> orchestrated, states |-> states, tasks |-> tasks_table,
          raised |-> HTTPException(IF no_rows = "raises" THEN 500 ELSE 404),
          returned |-> None]
    ELSE [orchestrated |-> [orchestrated EXCEPT ![agent_id].status = "stopped",
                                                ![agent_id].updated_at = At(t)],
          states |-> IF states[agent_id] = NoRow THEN states
                     ELSE [states EXCEPT ![agent_id].status = "stopped",
                                         ![agent_id].end_time = At(t)],
          tasks |-> stop_tasks(tasks_table, agent_id, t),
          raised |-> None,
          returned |-> [status |-> "stopped", message |-> "Agent successfully stopped",
                        shutdown_time |-> At(t)]]

\* mutant: the tasks of the agent are left as they are
orchestrator_stop_agent_keeps_tasks(orchestrated, states, tasks_table, agent_id, no_rows, t) ==
    IF orchestrated[agent_id] = NoRow
    THEN [orchestrated |-> orchestrated, states |-> states, tasks |-> tasks_table,
          raised |-> HTTPException(IF no_rows = "raises" THEN 500 ELSE 404),
          returned |-> None]
    ELSE IF orchestrated[agent_id].status \in {"stopped", "completed", "failed"}
    THEN [orchestrated |-> orchestrated, states |-> states, tasks |-> tasks_table,
          raised |-> None,
          returned |-> [status |-> orchestrated[agent_id].status,
                        message |-> "Agent already in that state",
                        shutdown_time |-> orchestrated[agent_id].updated_at]]
    ELSE [orchestrated |-> [orchestrated EXCEPT ![agent_id].status = "stopped",
                                                ![agent_id].updated_at = At(t)],
          states |-> IF states[agent_id] = NoRow THEN states
                     ELSE [states EXCEPT ![agent_id].status = "stopped",
                                         ![agent_id].end_time = At(t)],
          tasks |-> tasks_table,
          raised |-> None,
          returned |-> [status |-> "stopped", message |-> "Agent successfully stopped",
                        shutdown_time |-> At(t)]]

\* stop_agent (agent_orchestrator.py 273-377) at time t: the three tables
\* afterwards, and what it raised or returned
orchestrator_stop_agent(orchestrated, states, tasks_table, agent_id, no_rows, t) ==
    IF orchestrated[agent_id] = NoRow
    THEN [orchestrated |-> orchestrated, states |-> states, tasks |-> tasks_table,
          raised |-> HTTPException(IF no_rows = "raises" THEN 500 ELSE 404),
          returned |-> None]
    ELSE IF orchestrated[agent_id].status \in {"stopped", "completed", "failed"}
    THEN [orchestrated |-> orchestrated, states |-> states, tasks |-> tasks_table,
          raised |-> None,
          returned |-> [status |-> orchestrated[agent_id].status,
                        message |-> "Agent already in that state",
                        shutdown_time |-> orchestrated[agent_id].updated_at]]
    ELSE IF states[agent_id] = NoRow /\ no_rows = "raises"
    THEN [orchestrated |-> [orchestrated EXCEPT ![agent_id].status = "stopping",
                                                ![agent_id].updated_at = At(t)],
          states |-> states, tasks |-> tasks_table,
          raised |-> HTTPException(500), returned |-> None]
    ELSE [orchestrated |-> [orchestrated EXCEPT ![agent_id].status = "stopped",
                                                ![agent_id].updated_at = At(t)],
          states |-> IF states[agent_id] = NoRow THEN states
                     ELSE [states EXCEPT ![agent_id].status = "stopped",
                                         ![agent_id].end_time = At(t)],
          tasks |-> stop_tasks(tasks_table, agent_id, t),
          raised |-> None,
          returned |-> [status |-> "stopped", message |-> "Agent successfully stopped",
                        shutdown_time |-> At(t)]]

\* POST /orchestrator/stop/{agent_id}
OrchestratorStopAgent(agent_id, no_rows) ==
    With(orchestrator_stop_agent(orchestrated_agents, agent_states, agent_tasks,
                                 agent_id, no_rows, now + 1),
         LAMBDA out :
        /\ orchestrated_agents' = out.orchestrated
        /\ agent_states' = out.states
        /\ agent_tasks' = out.tasks
        /\ svc_response' = [op |-> "stop_agent", agent_id |-> agent_id,
                            raised |-> out.raised, returned |-> out.returned]
        /\ now' = now + 1
        /\ UNCHANGED <<monitors, init_tasks>>)

\* mutant: the loop ends on a terminal status before the copy is made
monitor_poll_break_first(orchestrated, states, agent_id, t) ==
    IF states[agent_id] = NoRow
    THEN [orchestrated |-> orchestrated, ends |-> TRUE, found |-> FALSE]
    ELSE IF states[agent_id].status \in {"completed", "failed", "stopped"}
    THEN [orchestrated |-> orchestrated, ends |-> TRUE, found |-> TRUE]
    ELSE [orchestrated |->
              IF orchestrated[agent_id] = NoRow THEN orchestrated
              ELSE [orchestrated EXCEPT ![agent_id].status = states[agent_id].status,
                                        ![agent_id].metrics = states[agent_id].metrics,
                                        ![agent_id].updated_at = At(t)],
          ends |-> FALSE, found |-> TRUE]

\* one pass of the loop of monitor_agent up to its sleep
\* (agent_orchestrator.py 143-167): the orchestrator table afterwards, and
\* whether the loop ends here
monitor_poll(orchestrated, states, agent_id, t) ==
    IF states[agent_id] = NoRow
    THEN [orchestrated |-> orchestrated, ends |-> TRUE, found |-> FALSE]
    ELSE [orchestrated |->
              IF orchestrated[agent_id] = NoRow THEN orchestrated
              ELSE [orchestrated EXCEPT ![agent_id].status = states[agent_id].status,
                                        ![agent_id].metrics = states[agent_id].metrics,
                                        ![agent_id].updated_at = At(t)],
          ends |-> states[agent_id].status \in {"completed", "failed", "stopped"},
          found |-> TRUE]

\* the monitor_agent task of agent_id runs from the head of its loop to the
\* sleep or to its end
MonitorPoll(agent_id) ==
    /\ monitors[agent_id].pc = "polling"
    /\ With(monitor_poll(orchestrated_agents, agent_states, agent_id, now + 1),
            LAMBDA out :
        /\ orchestrated_agents' = out.orchestrated
        /\ monitors' = [monitors EXCEPT
                           ![agent_id] = [pc |-> IF out.ends THEN "ended" ELSE "sleeping",
                                          polls |-> @.polls + 1]]
        /\ now' = IF out.found THEN now + 1 ELSE now)
    /\ UNCHANGED <<agent_states, agent_tasks, init_tasks, svc_response>>

\* asyncio.sleep(check_interval) is over: the next pass of
\* range(monitoring_duration // check_interval), or the end of the loop
MonitorWake(agent_id) ==
    /\ monitors[agent_id].pc = "sleeping"
    /\ monitors' = [monitors EXCEPT
                       ![agent_id].pc =
                           IF monitors[agent_id].polls < monitoring_duration \div check_interval
                           THEN "polling" ELSE "ended"]
    /\ UNCHANGED <<orchestrated_agents, agent_states, agent_tasks, init_tasks,
                   svc_response, now>>

\* the agent's own service writes its status and its metrics into
\* agent_states (agent_launcher.py 82-96)
AgentReports(agent_id, status, progress) ==
    /\ agent_states[agent_id] # NoRow
    /\ agent_states' = [agent_states EXCEPT
                           ![agent_id].status = status,
                           ![agent_id].metrics = [progress |-> progress,
                                                  tasks_completed |-> 0]]
    /\ UNCHANGED <<orchestrated_agents, agent_tasks, monitors, init_tasks, svc_response,
                   now>>

\* the row of the agent is gone from agent_states, the case monitor_agent
\* and stop_agent look for (agent_orchestrator.py 152-154, 320-321)
RowRemoved(agent_id) ==
    /\ agent_states[agent_id] # NoRow
    /\ agent_states' = [agent_states EXCEPT ![agent_id] = NoRow]
    /\ UNCHANGED <<orchestrated_agents, agent_tasks, monitors, init_tasks, svc_response,
                   now>>

\* a task of an agent comes into agent_tasks under a task_id not in use
\* (the AgentTask rows, agent_orchestrator.py 17-43)
TaskCreated(task_id, agent_id, status) ==
    /\ agent_tasks[task_id] = NoRow
    /\ agent_tasks' = [agent_tasks EXCEPT
                          ![task_id] = [agent_id |-> agent_id, status |-> status,
                                        completed_at |-> IF status \in {"completed", "failed"}
                                                         THEN At(0) ELSE None,
                                        error |-> ""]]
    /\ UNCHANGED <<orchestrated_agents, agent_states, monitors, init_tasks, svc_response,
                   now>>

otherVars == <<regVars, execution_history, tool_state, tasks, call, ret, tplVars, txtVars,
               apiVars, tool_cache_size, objects>>

(***************************************************************************)
(* SpecOrch: agents are launched, report, are polled by their monitors and *)
(* are stopped, tasks come in, until the clock reads MaxTicks.             *)
(***************************************************************************)
MaxTicks == 4

NextOrch ==
    \/ \E agent_id \in Agents :
          now < MaxTicks /\ OrchestratorLaunchAgent(agent_id) /\ UNCHANGED otherVars
    \/ \E agent_id \in Agents, no_rows \in NoRowsOutcomes :
          now < MaxTicks /\ OrchestratorStopAgent(agent_id, no_rows) /\ UNCHANGED otherVars
    \/ \E agent_id \in Agents : now < MaxTicks /\ MonitorPoll(agent_id) /\ UNCHANGED otherVars
    \/ \E agent_id \in Agents : MonitorWake(agent_id) /\ UNCHANGED otherVars
    \/ \E agent_id \in Agents, status \in {"active", "completed", "failed"} :
          AgentReports(agent_id, status, 0) /\ UNCHANGED otherVars
    \/ \E agent_id \in Agents : RowRemoved(agent_id) /\ UNCHANGED otherVars
    \/ \E task_id \in TaskIds, agent_id \in Agents,
          status \in {"pending", "running", "completed"} :
          TaskCreated(task_id, agent_id, status) /\ UNCHANGED otherVars

SpecOrch == Init /\ [][NextOrch]_vars

(***************************************************************************)
(* SpecMon: one agent is launched; its monitor polls and sleeps while the  *)
(* agent's service reports statuses and metrics, or its row goes away.     *)
(* The event loop runs a task that is ready, and a sleep comes to its end: *)
(* weak fairness of the two steps of the monitor.                          *)
(***************************************************************************)
NextMon ==
    \/ OrchestratorLaunchAgent("a1") /\ UNCHANGED otherVars
    \/ MonitorPoll("a1") /\ UNCHANGED otherVars
    \/ MonitorWake("a1") /\ UNCHANGED otherVars
    \/ \E status \in {"active", "completed", "failed", "stopped"}, progress \in 0..1 :
          AgentReports("a1", status, progress) /\ UNCHANGED otherVars
    \/ RowRemoved("a1") /\ UNCHANGED otherVars

SpecMon ==
    /\ Init /\ [][NextMon]_vars
    /\ WF_vars(MonitorPoll("a1") /\ UNCHANGED otherVars)
    /\ WF_vars(MonitorWake("a1") /\ UNCHANGED otherVars)

(***************************************************************************)
(* The agent launcher (agent_launcher.py).  launch_agent leaves the task   *)
(* initialize_agent_process queued on the event loop; the coroutines that  *)
(* task awaits have no await of their own, so it runs in one step once the *)
(* loop starts it, and any endpoint call that is ready before it runs      *)
(* first.                                                                  *)
(***************************************************************************)
\* AgentStateManager.update_agent_status (agent_launcher.py 82-90) at time t
update_agent_status(states, agent_id, status, t) ==
    IF states[agent_id] = NoRow THEN states
    ELSE [states EXCEPT ![agent_id].status = status,
                        ![agent_id].end_time =
                            IF status \in {"completed", "failed", "stopped"}
                            THEN At(t) ELSE @]

\* launch_agent (agent_launcher.py 137-169) with a request that has its
\* type and objectives, for the fresh id agent_id
launcher_launch_agent(states, queued, agent_id) ==
    [states |-> [states EXCEPT ![agent_id] = [status |-> "initializing",
                                              metrics |-> InitialMetrics,
                                              end_time |-> None]],
     queued |-> [queued EXCEPT ![agent_id] = "queued"]]

LauncherLaunchAgent(agent_id) ==
    /\ agent_states[agent_id] = NoRow
    /\ init_tasks[agent_id] = "none"
    /\ agent_states' = launcher_launch_agent(agent_states, init_tasks, agent_id).states
    /\ init_tasks' = launcher_launch_agent(agent_states, init_tasks, agent_id).queued
    /\ svc_response' = [op |-> "launch_agent", agent_id |-> agent_id, raised |-> None,
                        returned |-> [status_url |-> agent_id]]
    /\ now' = now + 1
    /\ UNCHANGED <<orchestrated_agents, agent_tasks, monitors>>

\* initialize_agent_process (agent_launcher.py 171-192): get_agent_state
\* raises when .single() does, and the except clause writes failed; else
\* the status is set to active
initialize_agent_process(states, agent_id, no_rows, t) ==
    IF states[agent_id] = NoRow /\ no_rows = "raises"
    THEN update_agent_status(states, agent_id, "failed", t)
    ELSE update_agent_status(states, agent_id, "active", t)

\* the event loop runs the queued task of agent_id
InitializeAgentProcess(agent_id, no_rows) ==
    /\ init_tasks[agent_id] = "queued"
    /\ agent_states' = initialize_agent_process(agent_states, agent_id, no_rows, now + 1)
    /\ init_tasks' = [init_tasks EXCEPT ![agent_id] = "done"]
    /\ now' = now + 1
    /\ UNCHANGED <<orchestrated_agents, agent_tasks, monitors, svc_response>>

\* stop_agent (agent_launcher.py 239-276): [states, raised, returned].  The
\* 404 is raised inside the try and caught by `except Exception`; the name
\* supabase is assigned at 262, so it is a local of the function and its
\* use on that line raises UnboundLocalError, after the status was written
launcher_stop_agent(states, agent_id, no_rows, t) ==
    IF states[agent_id] = NoRow
    THEN [states |-> states, raised |-> HTTPException(500), returned |-> None]
    ELSE IF states[agent_id].status \in {"stopped", "completed", "failed"}
    THEN [states |-> states, raised |-> None,
          returned |-> [status |-> states[agent_id].status,
                        message |-> "Agent already in that state"]]
    ELSE [states |-> update_agent_status(states, agent_id, "stopped", t),
          raised |-> HTTPException(500), returned |-> None]

\* POST /agent/stop/{agent_id}
LauncherStopAgent(agent_id, no_rows) ==
    With(launcher_stop_agent(agent_states, agent_id, no_rows, now + 1), LAMBDA out :
        /\ agent_states' = out.states
        /\ svc_response' = [op |-> "stop_agent", agent_id |-> agent_id,
                            raised |-> out.raised, returned |-> out.returned]
        /\ now' = now + 1
        /\ UNCHANGED <<orchestrated_agents, agent_tasks, monitors, init_tasks>>)

\* the agents scale_agents counts (agent_launcher.py 335-339)
Counted(states) ==
    {agent_id \in Agents :
        /\ states[agent_id] # NoRow
        /\ states[agent_id].status \in {"running", "initializing", "active", "pending"}}

\* launch_agent for each id of a set of fresh ids
RECURSIVE launch_all(_, _, _)
launch_all(states, queued, ids) ==
    IF ids = {} THEN [states |-> states, queued |-> queued]
    ELSE With(CHOOSE agent_id \in ids : TRUE, LAMBDA agent_id :
            With(launcher_launch_agent(states, queued, agent_id), LAMBDA launched :
                launch_all(launched.states, launched.queued, ids \ {agent_id})))

\* scale_agents (agent_launcher.py 328-410) with target_count: at the
\* target nothing happens; below it, launch_agent is called for fresh ids;
\* above it, stop_agent is called for first, the agent of lowest priority,
\* and what it raises ends the call
ScaleAgents(target_count, fresh, first, no_rows) ==
    /\ fresh \cap {agent_id \in Agents : agent_states[agent_id] # NoRow} = {}
    /\ fresh \cap {agent_id \in Agents : init_tasks[agent_id] # "none"} = {}
    /\ IF target_count = Cardinality(Counted(agent_states))
       THEN /\ fresh = {} /\ first = CHOOSE agent_id \in Agents : TRUE
            /\ svc_response' = [op |-> "scale_agents", agent_id |-> "", raised |-> None,
                                returned |-> [status |-> "unchanged"]]
            /\ UNCHANGED <<agent_states, init_tasks>>
       ELSE IF target_count > Cardinality(Counted(agent_states))
       THEN /\ Cardinality(fresh) = target_count - Cardinality(Counted(agent_states))
            /\ first = CHOOSE agent_id \in Agents : TRUE
            /\ agent_states' = launch_all(agent_states, init_tasks, fresh).states
            /\ init_tasks' = launch_all(agent_states, init_tasks, fresh).queued
            /\ svc_response' = [op |-> "scale_agents", agent_id |-> "", raised |-> None,
                                returned |-> [status |-> "scaled_up"]]
       ELSE /\ fresh = {} /\ first \in Counted(agent_states)
            /\ agent_states' = launcher_stop_agent(agent_states, first, no_rows, now + 1).states
            /\ svc_response' = [op |-> "scale_agents", agent_id |-> first,
                                raised |-> HTTPException(500), returned |-> None]
            /\ UNCHANGED init_tasks
    /\ now' = now + 1
    /\ UNCHANGED <<orchestrated_agents, agent_tasks, monitors>>

(***************************************************************************)
(* SpecLauncher: launches, stops and scalings of up to MaxTarget agents    *)
(* and the queued initializations, until the clock reads MaxSteps.         *)
(***************************************************************************)
MaxSteps == 5
MaxTarget == 2

NextLauncher ==
    \/ \E agent_id \in Agents :
          now < MaxSteps /\ LauncherLaunchAgent(agent_id) /\ UNCHANGED otherVars
    \/ \E agent_id \in Agents, no_rows \in NoRowsOutcomes :
          now < MaxSteps /\ InitializeAgentProcess(agent_id, no_rows) /\ UNCHANGED otherVars
    \/ \E agent_id \in Agents, no_rows \in NoRowsOutcomes :
          now < MaxSteps /\ LauncherStopAgent(agent_id, no_rows) /\ UNCHANGED otherVars
    \/ \E target_count \in 1..MaxTarget, fresh \in SUBSET Agents, first \in Agents,
          no_rows \in NoRowsOutcomes :
          now < MaxSteps /\ ScaleAgents(target_count, fresh, first, no_rows)
                         /\ UNCHANGED otherVars

SpecLauncher == Init /\ [][NextLauncher]_vars

(***************************************************************************)
(* Manager claims (checked under Spec)                                     *)
(***************************************************************************)
Code(e) == IF e = None THEN "none" ELSE e.code

Running(i) == tasks[i].pc \in {"start", "validating", "executing"}

\* task i can take its next step
CanStep(i) ==
    ENABLED (\/ TaskStart(i)
             \/ \E v \in ValidateOutcomes : TaskValidated(i, v)
             \/ \E e \in ExecuteOutcomes : TaskExecuted(i, e))

C2_InvalidInputRejected ==
    [][ \A i \in 1..Len(tasks') :
          tasks'[i].v_out = "false" =>
             /\ tasks'[i].pc = "done"
             /\ tasks'[i].e_out = "none"
             /\ tasks'[i].result.status = ERROR
             /\ Code(tasks'[i].result.error) = "INVALID_TOOL_INPUT"
             /\ tasks'[i].result.error.type = "ToolError"
             /\ (Len(tasks) = Len(tasks') /\ tasks[i].pc = "validating")
                   => (tool_state' = tool_state /\ template_cache' = template_cache)
             /\ (call'.kind = "execute_tool" /\ call'.status = "returned")
                   => ret' = tasks'[i].result
      ]_vars

\* an execute_tool whose input the registered tool rejected has returned
C2_Witness ==
    /\ call.kind = "execute_tool"
    /\ call.status = "returned"
    /\ DictHas(tools, tasks[1].tool_name)
    /\ tasks[1].v_out = "false"
    /\ Code(ret.error) = "INVALID_TOOL_INPUT"

\* the results the last call handed to its caller
Returned ==
    IF call.status # "returned" \/ call.kind = "none" THEN {}
    ELSE IF call.kind = "execute_tool" THEN {ret}
    ELSE {ret[i].v : i \in 1..Len(ret)}

\* C3: every result returned by execute_tool or held in the map returned by
\* execute_tools_parallel with status ERROR carries a ToolError with a
\* message and a code, every one with status SUCCESS carries no error, and the
\* error field never holds anything but None or a ToolError.
C3_ResultShape ==
    \A r \in Returned :
        /\ r.type = "ToolResult"
        /\ r.status \in {SUCCESS, ERROR}
        /\ r.error = None \/ r.error.type = "ToolError"
        /\ r.status = ERROR
              => /\ r.error # None
                 /\ {"message", "code"} \subseteq DOMAIN r.error
                 /\ r.error.code \in {"TOOL_NOT_FOUND", "INVALID_TOOL_INPUT",
                                      "TOOL_SPECIFIC", "TOOL_EXECUTION_ERROR"}
        /\ r.status = SUCCESS => r.error = None

\* a returned map holds a SUCCESS and a wrapped exception
C3_Witness ==
    /\ call.kind = "execute_tools_parallel"
    /\ call.status = "returned"
    /\ \E r \in Returned : r.status = SUCCESS
    /\ \E r \in Returned : Code(r.error) = "TOOL_EXECUTION_ERROR"

\* the status and error code of execute_tool for a task, from what is
\* registered and what the tool did for this task alone
Alone(tk) ==
    IF ~DictHas(tools, tk.tool_name) THEN <<ERROR, "TOOL_NOT_FOUND">>
    ELSE IF tk.v_out = "false" THEN <<ERROR, "INVALID_TOOL_INPUT">>
    ELSE IF tk.v_out = "tool_error" THEN <<ERROR, "TOOL_SPECIFIC">>
    ELSE IF tk.v_out = "exception" THEN <<ERROR, "TOOL_EXECUTION_ERROR">>
    ELSE IF tk.v_out = "true" /\ tk.e_out \in {"success", "timed"} THEN <<SUCCESS, "none">>
    ELSE IF tk.v_out = "true" /\ tk.e_out = "tool_error" THEN <<ERROR, "TOOL_SPECIFIC">>
    ELSE IF tk.v_out = "true" /\ tk.e_out = "exception" THEN <<ERROR, "TOOL_EXECUTION_ERROR">>
    ELSE <<"unfinished", "none">>

NamedRequests(reqs) == SelectSeq(reqs, LAMBDA r : r.tool_name # NoName)

TaskOf(reqs, r) == Len(NamedRequests(SubSeq(reqs, 1, r)))

\* C7: the map execute_tools_parallel returns has, for every key, a request
\* of the batch with that tool name whose result is the value, and has a key
\* for every request with a tool name; requests without a tool name are
\* skipped and add nothing.
C7_ResultMapByName ==
    (call.kind = "execute_tools_parallel" /\ call.status = "returned") =>
        /\ \A n \in 1..Len(ret) :
              /\ ret[n].k # NoName
              /\ \E r \in 1..Len(call.requests) :
                    /\ call.requests[r].tool_name = ret[n].k
                    /\ ret[n].v = tasks[TaskOf(call.requests, r)].result
        /\ \A r \in 1..Len(call.requests) :
              call.requests[r].tool_name # NoName => DictHas(ret, call.requests[r].tool_name)

(***************************************************************************)
(* Registry claims (checked under SpecReg)                                 *)
(***************************************************************************)
\* the most recent entry of `registered` for a name
LatestRegistered(name) ==
    registered[CHOOSE i \in 1..Len(registered) :
                  /\ registered[i].k = name
                  /\ \A j \in (i+1)..Len(registered) : registered[j].k # name].v

\* C8: a registration (by instance or by class) under a name already present
\* raises ToolError DUPLICATE_TOOL, get_tool and unregister_tool of an absent
\* name raise TOOL_NOT_FOUND, and every registry call that raises (a failed
\* constructor, TOOL_INSTANTIATION_ERROR, included) leaves _tools as it was.
C8_RegistryErrorContract ==
    [][ LET r == reg_ret' IN
        /\ (r.op \in {"register_tool", "register_tool_class"} /\ DictHas(tools, r.name))
              => (r.raised.type = "ToolError" /\ Code(r.raised) = "DUPLICATE_TOOL")
        /\ (r.op \in {"get_tool", "unregister_tool"} /\ ~DictHas(tools, r.name))
              => (r.raised.type = "ToolError" /\ Code(r.raised) = "TOOL_NOT_FOUND")
        /\ (r.raised # None) => tools' = tools
        /\ Code(r.raised) = "TOOL_INSTANTIATION_ERROR"
              => (r.op = "register_tool_class" /\ ~DictHas(tools', r.name))
      ]_vars

C8_Witness ==
    /\ reg_ret.op = "register_tool_class"
    /\ Code(reg_ret.raised) = "DUPLICATE_TOOL"
    /\ Len(tools) = 2

\* C9: list_tools is exactly the names registered and not removed since, in
\* insertion order and without duplicates; get_tool(name) is the instance of
\* the most recent successful registration of that name; a name that is not
\* registered (never was, or was removed) can be registered.
C9_RegistryContents ==
    /\ list_tools(tools).value = DictKeys(registered)
    /\ \A i, j \in 1..Len(tools) : tools[i].k = tools[j].k => i = j
    /\ \A n \in ToolNames :
          IF DictHas(registered, n)
          THEN get_tool(tools, n).value = LatestRegistered(n)
          ELSE /\ Code(get_tool(tools, n).raised) = "TOOL_NOT_FOUND"
               /\ \A inst \in PoolInstances :
                     /\ register_tool(tools, n, inst).raised = None
                     /\ get_tool(register_tool(tools, n, inst).tools, n).value = inst
    /\ (reg_ret.op = "list_tools") => reg_ret.value = DictKeys(registered)
    /\ (reg_ret.op = "get_tool" /\ reg_ret.raised = None)
          => reg_ret.value = LatestRegistered(reg_ret.name)

\* "a" has just been removed from a registry that still holds "c" and "b"
C9_Witness ==
    /\ reg_ret.op = "unregister_tool"
    /\ reg_ret.name = "a"
    /\ reg_ret.raised = None
    /\ DictKeys(tools) = <<"c", "b">>
    /\ created = 1

(***************************************************************************)
(* Template claims (checked under SpecTpl)                                 *)
(***************************************************************************)
\* the template string of the call, when the input has one
TemplateOf(input_data) == DictGet(input_data, "template").s

\* the call rendered a template string: the input holds a string under
\* "template", no template file, and a mapping (or nothing) as data
RendersString(input_data) ==
    /\ DictHas(input_data, "template")
    /\ DictGet(input_data, "template").type = "str"
    /\ ~DictHas(input_data, "template_file")
    /\ DictHas(input_data, "data") => DictGet(input_data, "data").type = "dict"

\* t holds no "{{" followed, after it, by a "}}"
NoMarker(t) ==
    ~\E i, j \in 1..Len(t) : StartsAt(t, OPEN, i) /\ StartsAt(t, CLOSE, j) /\ j >= i + 2

\* the call returned a SUCCESS result whose content is the string content
Rendered(content) ==
    /\ tpl_out.raised = None
    /\ tpl_out.result.status = SUCCESS
    /\ DictGet(tpl_out.result.data, "content") = PyStr(content)

\* C10: a template string with no {{...}} marker is rendered unchanged, for
\* every data mapping and each of the formats text, html and markdown.
\* Violated by the empty template string, which execute takes for a missing
\* template and answers with MISSING_TEMPLATE.
C10_NoMarkerUnchanged ==
    (tpl_out # None /\ RendersString(tpl_in) /\ NoMarker(TemplateOf(tpl_in)))
        => Rendered(TemplateOf(tpl_in))

\* every template string with no marker but the empty one is rendered
\* unchanged, and the empty one raises MISSING_TEMPLATE
C10_NonEmptyUnchanged ==
    (tpl_out # None /\ RendersString(tpl_in) /\ NoMarker(TemplateOf(tpl_in)))
        => IF TemplateOf(tpl_in) # <<>> THEN Rendered(TemplateOf(tpl_in))
           ELSE tpl_out.raised # None /\ tpl_out.raised.code = "MISSING_TEMPLATE"

\* a template with braces but no marker came back unchanged in html
C10_Unchanged ==
    /\ tpl_out # None
    /\ RendersString(tpl_in)
    /\ TemplateOf(tpl_in) = <<"}", "}">>
    /\ DictHas(tpl_in, "output_format")
    /\ DictGet(tpl_in, "output_format") = PyStr(HTML)
    /\ Rendered(<<"}", "}">>)

(***************************************************************************)
(* Variable substitution (checked under SpecVar)                           *)
(***************************************************************************)
\* the value reached from value by the keys of path through nested
\* mappings, None when a step is absent
RECURSIVE Follow(_, _)
Follow(value, path) ==
    IF path = <<>> THEN value
    ELSE IF value.type = "dict" /\ \E n \in 1..Len(value.d) : value.d[n].k = Head(path)
    THEN Follow((CHOOSE e \in {value.d[n] : n \in 1..Len(value.d)} : e.k = Head(path)).v,
                Tail(path))
    ELSE None

\* what a piece stands for in the output: plain text for itself, a
\* placeholder for the string form of its value, nothing when there is none
Substituted(piece, data) ==
    IF ~piece.var THEN piece.text
    ELSE IF Follow(PyDict(data), piece.path) = None THEN <<>>
    ELSE PyStrOf(Follow(PyDict(data), piece.path))

RECURSIVE SubstitutedAll(_, _)
SubstitutedAll(pieces, data) ==
    IF pieces = <<>> THEN <<>>
    ELSE Substituted(Head(pieces), data) \o SubstitutedAll(Tail(pieces), data)

\* C11: each placeholder {{name}} or {{a.b.c}} is replaced by the string
\* form of the value its keys lead to in the data, and by the empty string
\* when a key of the path is absent or the value is null; no error is raised.
C11_VariableSubstitution ==
    tpl_out # None =>
        \A q \in PieceSeqs(VarPieces, MaxPieces) :
            TextOf(q) = TemplateOf(tpl_in) =>
                Rendered(SubstitutedAll(q, DictGet(tpl_in, "data").d))

\* "x={{a.b.c}}"-like: text, then a three-key path that leads to 7
C11_Witness ==
    /\ tpl_out # None
    /\ TemplateOf(tpl_in) = <<"Y", "{", "{", "a", ".", "b", ".", "c", "}", "}">>
    /\ Follow(DictGet(tpl_in, "data"), <<KeyA, KeyB, KeyC>>) = PyInt(7)
    /\ Rendered(<<"Y", "7">>)

(***************************************************************************)
(* Conditionals (checked under SpecCond)                                   *)
(***************************************************************************)
\* key is present in data with a truthy value
TruthyKey(data, key) == \E n \in 1..Len(data) : data[n].k = key /\ Truthy(data[n].v)

\* the branch the block c selects: then when the key named by the
\* condition is truthy, else the else branch, nothing in the if-only form
Selected(c, data) ==
    IF TruthyKey(data, c.cond.key) THEN c.then
    ELSE IF c.has_else THEN c.else
    ELSE [text |-> <<>>, var |-> FALSE, path |-> <<>>]

\* C12: {{#if c}}A{{else}}B{{/if}} renders A when the key c is present in the
\* data with a truthy value and B otherwise; {{#if c}}A{{/if}} renders A when
\* c is truthy and nothing otherwise; c is looked up as one key.
C12_Conditionals ==
    tpl_out # None =>
        \A c \in CondCases :
            CondText(c) = TemplateOf(tpl_in) =>
                Rendered(c.pre \o Substituted(Selected(c, DictGet(tpl_in, "data").d),
                                              DictGet(tpl_in, "data").d) \o c.suf)

\* {{#if a}}Y{{else}}N{{/if}} with a absent gave N
C12_Witness ==
    /\ tpl_out # None
    /\ TemplateOf(tpl_in) = IF_TAG \o <<" ", "a">> \o CLOSE \o <<"Y">> \o ELSE_TAG \o <<"N">>
                            \o ENDIF_TAG
    /\ ~DictHas(DictGet(tpl_in, "data").d, KeyA)
    /\ Rendered(<<"N">>)

(***************************************************************************)
(* Loops (checked under SpecLoop)                                          *)
(***************************************************************************)
\* the elements the loop runs over: those of a list, the characters of a
\* string, none when the key is absent or holds a null or a number
Elements(data, key) ==
    IF ~\E n \in 1..Len(data) : data[n].k = key THEN <<>>
    ELSE LET array == (CHOOSE e \in {data[n] : n \in 1..Len(data)} : e.k = key).v IN
         CASE array.type = "list" -> array.items
           [] array.type = "str" -> [n \in 1..Len(array.s) |-> PyStr(<<array.s[n]>>)]
           [] OTHER -> <<>>

Scalar(value) == value.type \in {"str", "int", "bool"}

\* what a body piece renders for one element; this is what {{this}} gives
BodyPieceFor(piece, element, data, this) ==
    CASE piece.kind = "text" -> piece.text
      [] piece.kind = "this" -> this
      [] piece.kind = "item.this" ->
            IF Scalar(element) THEN PyStrOf(element) ELSE <<>>
      [] piece.kind = "item.n" ->
            IF Follow(element, <<KeyN>>) = None THEN <<>>
            ELSE PyStrOf(Follow(element, <<KeyN>>))
      [] piece.kind = "x" ->
            IF Follow(PyDict(data), <<KeyX>>) = None THEN <<>>
            ELSE PyStrOf(Follow(PyDict(data), <<KeyX>>))

RECURSIVE BodyFor(_, _, _, _)
BodyFor(body, element, data, this) ==
    IF body = <<>> THEN <<>>
    ELSE BodyPieceFor(Head(body), element, data, this)
         \o BodyFor(Tail(body), element, data, this)

\* the bodies of the elements from the n-th on, with {{this}} rendering the
\* element (bound) or nothing
RECURSIVE Repeated(_, _, _, _, _)
Repeated(body, elements, n, data, bound) ==
    IF n > Len(elements) THEN <<>>
    ELSE BodyFor(body, elements[n], data,
                 IF bound THEN PyStrOf(elements[n]) ELSE <<>>)
         \o Repeated(body, elements, n + 1, data, bound)

\* the call rendered the loop block c over scalar elements (or none)
LoopOverScalars(c) ==
    /\ tpl_out # None
    /\ LoopText(c) = TemplateOf(tpl_in)
    /\ \A n \in 1..Len(Elements(DictGet(tpl_in, "data").d, c.array.key)) :
          Scalar(Elements(DictGet(tpl_in, "data").d, c.array.key)[n])

\* C13: {{#each arr}}body{{/each}} renders body once per element of
\* data[arr], in order, nothing for an empty or absent array, and {{this}} in
\* the body renders the current scalar element.  Violated: {{this}} renders
\* nothing, the element is reached as {{item.this}}.
C13_LoopsBindThis ==
    \A c \in LoopCases :
        LoopOverScalars(c) =>
            Rendered(c.pre \o Repeated(c.body, Elements(DictGet(tpl_in, "data").d, c.array.key),
                                       1, DictGet(tpl_in, "data").d, TRUE) \o c.suf)

\* the body is rendered once per element, in order, with {{item.this}} the
\* current scalar element, {{item.n}} the field n of a mapping element and
\* {{this}} nothing
C13_LoopsBindItem ==
    \A c \in LoopCases :
        (tpl_out # None /\ LoopText(c) = TemplateOf(tpl_in)) =>
            Rendered(c.pre \o Repeated(c.body, Elements(DictGet(tpl_in, "data").d, c.array.key),
                                       1, DictGet(tpl_in, "data").d, FALSE) \o c.suf)

\* {{#each items}}{{item.this}};{{/each}} with items = [1, 2, 3] gave 1;2;3;
C13_ItemThis ==
    /\ tpl_out # None
    /\ TemplateOf(tpl_in) = EACH_TAG \o <<" ", "i", "t", "e", "m", "s">> \o CLOSE
            \o <<"{", "{", "i", "t", "e", "m", ".", "t", "h", "i", "s", "}", "}", ";">>
            \o ENDEACH_TAG
    /\ Rendered(<<"1", ";", "2", ";", "3", ";">>)

(***************************************************************************)
(* Failures of execute (checked under SpecFiles)                           *)
(***************************************************************************)
\* the value under key, None when absent
Supplied(input_data, key) ==
    IF \E n \in 1..Len(input_data) : input_data[n].k = key
    THEN (CHOOSE e \in {input_data[n] : n \in 1..Len(input_data)} : e.k = key).v
    ELSE None

\* the input has no template and no template file (absent, null or empty)
NeitherSupplied(input_data) ==
    /\ Supplied(input_data, "template") \in {None, PyStr(<<>>)}
    /\ Supplied(input_data, "template_file") \in {None, PyStr(<<>>)}

\* the call has to read the file named by the input: no template string,
\* a file name, and no entry of that name in cache
ReadsFile(input_data, cache) ==
    /\ Supplied(input_data, "template") \in {None, PyStr(<<>>)}
    /\ Supplied(input_data, "template_file") \notin {None, PyStr(<<>>)}
    /\ \A n \in 1..Len(cache) : cache[n].k # Supplied(input_data, "template_file").s

FileExists(name) == \E n \in 1..Len(TemplateDir) : TemplateDir[n].k = name

FailedWith(out, code) == out.raised # None /\ out.raised.code = code /\ out.result = None

\* C14: execute fails only with a ToolError: MISSING_TEMPLATE when neither
\* a template nor a template file is supplied, TEMPLATE_NOT_FOUND when the
\* file to read does not exist, TEMPLATE_LOAD_ERROR when it cannot be read,
\* TEMPLATE_PROCESSING_ERROR with the type name of the exception in the
\* details for any other exception; a failed load adds nothing to the cache.
C14_ExecuteFailures ==
    [][ /\ tpl_out'.raised # None =>
              /\ tpl_out'.raised.type = "ToolError"
              /\ tpl_out'.result = None
              /\ tpl_out'.raised.code \in {"MISSING_TEMPLATE", "TEMPLATE_NOT_FOUND",
                                           "TEMPLATE_LOAD_ERROR", "TEMPLATE_PROCESSING_ERROR"}
        /\ NeitherSupplied(tpl_in') => FailedWith(tpl_out', "MISSING_TEMPLATE")
        /\ ReadsFile(tpl_in', template_cache) =>
              LET name == Supplied(tpl_in', "template_file").s IN
              /\ (~FileExists(name) /\ name \notin Unreadable)
                    => FailedWith(tpl_out', "TEMPLATE_NOT_FOUND")
              /\ name \in Unreadable
                    => /\ FailedWith(tpl_out', "TEMPLATE_LOAD_ERROR")
                       /\ tpl_out'.raised.details # <<>>
              /\ FileExists(name)
                    => ~FailedWith(tpl_out', "TEMPLATE_NOT_FOUND")
                       /\ ~FailedWith(tpl_out', "TEMPLATE_LOAD_ERROR")
        /\ (FailedWith(tpl_out', "TEMPLATE_NOT_FOUND")
            \/ FailedWith(tpl_out', "TEMPLATE_LOAD_ERROR")
            \/ FailedWith(tpl_out', "MISSING_TEMPLATE")) => template_cache' = template_cache
        /\ FailedWith(tpl_out', "TEMPLATE_PROCESSING_ERROR") =>
              /\ \E n \in 1..Len(tpl_out'.raised.details) :
                    /\ tpl_out'.raised.details[n].k = "error_type"
                    /\ tpl_out'.raised.details[n].v \in {"TypeError", "AttributeError"}
              /\ Supplied(tpl_in', "template").type \notin {"str", "NoneType"}
                 \/ Supplied(tpl_in', "data").type # "dict"
        /\ (Supplied(tpl_in', "template").type = "int" /\ Supplied(tpl_in', "template").n # 0)
              => FailedWith(tpl_out', "TEMPLATE_PROCESSING_ERROR")
      ]_vars

\* a load failed on a missing file after another file had been cached
C14_Witness ==
    /\ tpl_out # None
    /\ FailedWith(tpl_out, "TEMPLATE_NOT_FOUND")
    /\ DictKeys(template_cache) = <<<<"f">>>>

(***************************************************************************)
(* Text analysis claims                                                    *)
(***************************************************************************)
ValidateCalled == txt_out # None /\ txt_in.method = "validate_input"

\* text is present and is a non-empty string
NonEmptyText(input_data) ==
    \E n \in 1..Len(input_data) :
        /\ input_data[n].k = "text"
        /\ input_data[n].v.type = "str"
        /\ input_data[n].v.s # <<>>

\* text is present and is a string, empty or not
StringText(input_data) ==
    \E n \in 1..Len(input_data) : input_data[n].k = "text" /\ input_data[n].v.type = "str"

\* operations is absent, or a list of names of operations
KnownOperations(input_data) ==
    \A n \in 1..Len(input_data) :
        input_data[n].k = "operations" =>
            /\ input_data[n].v.type = "list"
            /\ \A m \in 1..Len(input_data[n].v.items) :
                  /\ input_data[n].v.items[m].type = "str"
                  /\ input_data[n].v.items[m].s \in {ENTITIES, KEYWORDS, SENTIMENT, TOPICS}

Accepted == txt_out.raised = None /\ txt_out.value = TRUE

\* C15: validate_input accepts an input exactly when text is present and is
\* a non-empty string and operations, if given, is a list whose members are
\* all among entities, keywords, sentiment, topics; every other input is
\* rejected.
C15_ValidateInput ==
    ValidateCalled =>
        (Accepted <=> (NonEmptyText(txt_in.arg) /\ KnownOperations(txt_in.arg)))

\* what the code does: the text may be any string, the empty one included
C15_EmptyTextAccepted ==
    ValidateCalled =>
        (Accepted <=> (StringText(txt_in.arg) /\ KnownOperations(txt_in.arg)))

C15_EmptyText ==
    /\ ValidateCalled
    /\ StringText(txt_in.arg) /\ ~NonEmptyText(txt_in.arg)
    /\ Accepted

SentimentCalled == txt_out # None /\ txt_in.method = "_analyze_sentiment"

RECURSIVE Sum(_, _)
Sum(tokens, field) ==
    IF tokens = <<>> THEN 0 ELSE Head(tokens)[field] + Sum(Tail(tokens), field)

\* the label the thresholds give for (pos - neg) / total
LabelFor(pos, neg, total) ==
    IF total = 0 THEN "neutral"
    ELSE IF 100 * (pos - neg) > 5 * total THEN "positive"
    ELSE IF 100 * (pos - neg) < -5 * total THEN "negative"
    ELSE "neutral"

\* the quotient r is the number p / q
Equals(r, p, q) == r.num * q = p * r.den

SentimentAsClaimed(tokens) ==
    LET pos == Sum(tokens, "pos")
        neg == Sum(tokens, "neg")
        total == Sum(tokens, "words")
    IN  /\ txt_out.word_counts = [positive |-> pos, negative |-> neg, total |-> total]
        /\ IF total = 0 THEN Equals(txt_out.scores.compound, 0, 1)
           ELSE Equals(txt_out.scores.compound, pos - neg, total)
        /\ txt_out.label = LabelFor(pos, neg, total)
        /\ txt_out.word_counts.positive + txt_out.word_counts.negative
              =< txt_out.word_counts.total

\* C16: for a text whose words hold pos positive and neg negative words among
\* total words, compound = (pos - neg) / total (0 when total = 0), the label
\* is positive iff compound > 0.05, negative iff compound < -0.05 and
\* neutral otherwise, and the counts returned satisfy pos + neg <= total;
\* one positive and one negative word among ten give compound 0 and neutral.
C16_Sentiment ==
    SentimentCalled =>
        /\ \A tokens \in TokenSeqs :
              SentenceOf(tokens) = txt_in.arg => SentimentAsClaimed(tokens)
        /\ txt_out.word_counts = [positive |-> 1, negative |-> 1, total |-> 10]
              => Equals(txt_out.scores.compound, 0, 1) /\ txt_out.label = "neutral"

\* one positive and one negative word among ten words
C16_OneEachAmongTen ==
    /\ SentimentCalled
    /\ txt_out.word_counts = [positive |-> 1, negative |-> 1, total |-> 10]
    /\ txt_out.label = "neutral"

(***************************************************************************)
(* OpenAI client claims (checked under SpecApi)                            *)
(***************************************************************************)
Status(i) == api.requests[i].status_code

\* the response came with status 200 and a body that parses
Parsed(i) == Status(i) = 200 /\ api.requests[i].json # None

Issued == Len(api.requests)

\* the shape of a capped retry, Ok(i) saying which responses end the call
\* with a return
CappedRetry(Ok(_)) ==
    /\ Issued =< api.max_retries
    /\ \A i \in 1..(Issued - 1) : ~Ok(i)
    /\ api.pc = "returned" <=> (Issued > 0 /\ Ok(Issued))
    /\ api.pc = "returned" => api.outcome = [returned |-> api.requests[Issued].json]
    /\ api.pc = "raised" => Issued = api.max_retries
    /\ api.pc = "loop" => Issued < api.max_retries
    /\ api.pc \in {"loop", "raised"} => api.attempts = Issued

\* C17 (as stated): _make_request issues at most max_retries requests per
\* call, returns the body of the first response with status 200 without
\* issuing further requests, and otherwise raises after the max_retries-th
\* failed attempt; every failed attempt counts once towards the cap.
C17_FirstStatus200 == CappedRetry(LAMBDA i : Status(i) = 200)

\* C17 (amended): the same capped retry, where the response that ends the
\* call is the first one with status 200 whose body parses as JSON; a 200
\* response whose body does not parse is a failed attempt like any other.
C17_CappedRetry == CappedRetry(Parsed)

\* a client with the default max_retries gave up after a rate limit, an
\* error response and a transport exception
C17_GaveUp ==
    /\ api.pc = "raised"
    /\ api.max_retries = max_retries_default
    /\ Issued = max_retries_default
    /\ \E i, j, k \in 1..Issued :
          /\ Status(i) = 429
          /\ Status(j) = 500
          /\ api.requests[k].exception # None

\* the sleep made after the request i, when that request failed
Slept(i) == api.sleeps[i]

RateLimited(i) == api.requests[i].exception = None /\ Status(i) = 429

\* the seconds a retry-after header names, for the headers that name a
\* number of seconds
HeaderSeconds ==
    {[header |-> PyStr(<<"0">>), seconds |-> 0],
     [header |-> PyStr(<<"2">>), seconds |-> 2],
     [header |-> PyStr(<<"3", "0">>), seconds |-> 30]}

NamesSeconds(i) == \E h \in HeaderSeconds : h.header = api.requests[i].retry_after

\* the wait the server asked for: 1 second without the header
Asked(i, tenths) ==
    IF api.requests[i].retry_after = None THEN tenths = 10
    ELSE \A h \in HeaderSeconds :
            h.header = api.requests[i].retry_after => tenths = 10 * h.seconds

\* 2^n + 0.1 * n seconds, in tenths of a second
Backoff(n, tenths) == tenths = 10 * (2 ^ n) + n

BackoffIncreases ==
    \A n, m \in 1..Len(api.sleeps) :
        (n < m /\ Slept(n).backoff /\ Slept(m).backoff) => Slept(n).tenths < Slept(m).tenths

\* C18 (as stated): after a 429 response the client waits exactly the
\* retry-after number of seconds (1 when the header is absent) and applies
\* no exponential backoff for that attempt; after any other failure on
\* attempt n it waits 2^n + 0.1*n, which strictly increases with n.
C18_EveryRateLimit ==
    /\ \A i \in 1..Len(api.sleeps) :
          IF RateLimited(i) THEN ~Slept(i).backoff /\ Asked(i, Slept(i).tenths)
          ELSE Slept(i).backoff /\ Backoff(i, Slept(i).tenths)
    /\ BackoffIncreases

\* C18 (amended): the same, for a 429 response whose retry-after header is
\* absent or is a decimal integer; a 429 response whose header is anything
\* else is handled as any other failure, with the backoff of its attempt.
C18_Waits ==
    /\ \A i \in 1..Len(api.sleeps) :
          IF RateLimited(i) /\ (api.requests[i].retry_after = None \/ NamesSeconds(i))
          THEN ~Slept(i).backoff /\ Asked(i, Slept(i).tenths)
          ELSE Slept(i).backoff /\ Backoff(i, Slept(i).tenths)
    /\ BackoffIncreases

\* 30 seconds asked for and waited, then 1 second for a 429 without the
\* header, then the backoff of the third attempt
C18_WaitedAsAsked ==
    /\ Len(api.sleeps) = 3
    /\ RateLimited(1) /\ Slept(1) = [tenths |-> 300, backoff |-> FALSE]
    /\ RateLimited(2) /\ Slept(2) = [tenths |-> 10, backoff |-> FALSE]
    /\ ~RateLimited(3) /\ Slept(3) = [tenths |-> 83, backoff |-> TRUE]

(***************************************************************************)
(* History claims (checked under SpecRecord)                               *)
(***************************************************************************)
\* the input as the history must show it: api_key redacted, name kept
SanitizedAs(input_data) ==
    IF input_data = <<[k |-> api_key, v |-> PyStr(<<"s", "k", "-", "1">>)]>>
    THEN <<[k |-> api_key, v |-> PyStr(REDACTED)]>>
    ELSE input_data

RecordOf(request, result) ==
    [tool_name |-> request.tool_name,
     input_data |-> SanitizedAs(request.input_data),
     result |-> to_dict(result),
     timestamp |-> result.timestamp]

\* steps of one execute_tool call: it is made, its coroutine ends, it
\* returns to the caller
Calling == call.status = "returned" /\ call'.status = "running"
Ending == tasks # <<>> /\ tasks[1].pc # "done" /\ tasks'[1].pc = "done"
Returning == call.status = "running" /\ call'.status = "returned"

\* C19: every call of execute_tool appends exactly one record, whatever its
\* outcome: the call starts a coroutine that ends once, with a result and
\* never with an exception; the step that ends it appends one record (below
\* the capacity) holding the tool name, the sanitized input, the serialized
\* result and that result's timestamp; the result recorded is the one the
\* caller gets; no other step changes the history except clear_history,
\* which empties it.
C19_OneRecordPerCall ==
    [][ /\ Calling => /\ Len(tasks') = 1 /\ tasks'[1].pc = "start"
                      /\ execution_history' = execution_history
        /\ Ending =>
              /\ tasks'[1].result.type = "ToolResult"
              /\ Len(execution_history) < max_history_size =>
                    execution_history'
                        = Append(execution_history, RecordOf(call.requests[1], tasks'[1].result))
        /\ \A i \in 1..Len(tasks') : tasks'[i].pc # "raised"
        /\ Returning =>
              /\ tasks[1].pc = "done"
              /\ ret' = tasks[1].result
              /\ execution_history' = execution_history
              /\ execution_history[Len(execution_history)] = RecordOf(call.requests[1], ret')
        /\ (~Ending /\ execution_history' # execution_history) =>
              (call.status = "returned" /\ call' = call /\ execution_history' = <<>>)
      ]_vars

\* two calls were made and returned, the first with an ERROR result and the
\* second with a SUCCESS result, and the history holds both
C19_TwoRecords ==
    /\ call.status = "returned"
    /\ Len(execution_history) = 2
    /\ DictGet(execution_history[1].result, "status") = ERROR
    /\ DictGet(execution_history[2].result, "status") = SUCCESS
    /\ ret # None /\ execution_history[2].result = to_dict(ret)

(***************************************************************************)
(* Processing order (checked under SpecOrder)                              *)
(***************************************************************************)
\* a conditional block, a loop block the patterns match in the template
ConditionalRemains(template) == Search("if", template, 1).ok
LoopRemains(template) == Search("each", template, 1).ok

VarX == <<"{", "{", "x", "}", "}">>

RECURSIVE RepeatText(_, _)
RepeatText(text, n) == IF n = 0 THEN <<>> ELSE text \o RepeatText(text, n - 1)

\* the passes follow one another in the order conditionals, loops,
\* variables, and a pass is left only by an iteration that changes nothing
InOrder ==
    /\ tpl_run.pc = "idle" => tpl_run'.pc = "conditionals"
    /\ tpl_run.pc = "conditionals" =>
          /\ tpl_run'.pc \in {"conditionals", "loops"}
          /\ tpl_run'.pc = "conditionals" <=> tpl_run'.template # tpl_run.template
    /\ tpl_run.pc = "loops" =>
          /\ tpl_run'.pc \in {"loops", "variables"}
          /\ tpl_run'.pc = "loops" <=> tpl_run'.template # tpl_run.template
    /\ tpl_run.pc = "variables" => tpl_run'.pc = "done"

\* a variable written at the top of the template stays as it is through
\* the first two passes and is replaced by the third
TopLevelVariableLast ==
    StartsAt(tpl_run.source, VarX, 1) =>
        /\ tpl_run'.pc \in {"conditionals", "loops", "variables"} =>
              StartsAt(tpl_run'.template, VarX, 1)
        /\ tpl_run'.pc = "done" => StartsAt(tpl_run'.template, <<"v">>, 1)

\* the conditional in the body of the loop of IfInEach is decided against
\* the outer p, the same for every element, whatever p the element carries
DecidedOnce ==
    (tpl_run'.pc = "done" /\ tpl_run.source = IfInEach) =>
        tpl_run'.template
            = RepeatText(IF TruthyKey(tpl_run.data, KeyP) THEN <<"Y", "Z">> ELSE <<"Z">>,
                         Len(Elements(tpl_run.data, KeyA)))

RECURSIVE SelectedAll(_, _)
SelectedAll(blocks, data) ==
    IF blocks = <<>> THEN <<>>
    ELSE Substituted(Selected(Head(blocks), data), data) \o Head(blocks).suf
         \o SelectedAll(Tail(blocks), data)

\* no {{#if, {{else}} or {{/if}} in the text
NoConditionalMarker(t) ==
    \A i \in 1..Len(t) :
        ~StartsAt(t, IF_TAG, i) /\ ~StartsAt(t, ELSE_TAG, i) /\ ~StartsAt(t, ENDIF_TAG, i)

\* some if-only block of the sequence stands before an if/else block
IfOnlyBeforeIfElse(blocks) ==
    \E i, j \in 1..Len(blocks) : i < j /\ ~blocks[i].has_else /\ blocks[j].has_else

EachBlockItsBranch(blocks) ==
    /\ Rendered(SelectedAll(blocks, DictGet(tpl_in, "data").d))
    /\ NoConditionalMarker(DictGet(tpl_out.result.data, "content").s)

\* C21: for a template made of a sequence of well-formed, non-nested
\* conditional blocks in any mix of the two forms, each block is replaced by
\* its own selected branch independently of the others, and the output
\* holds no {{#if, {{else}} or {{/if}} marker.
C21_BlocksIndependent ==
    tpl_out # None =>
        \A blocks \in PieceSeqs(SeqBlocks, MaxBlocks) :
            (blocks # <<>> /\ BlocksText(blocks) = TemplateOf(tpl_in))
                => EachBlockItsBranch(blocks)

\* what holds: the same for the sequences in which no if-only block stands
\* before an if/else block
C21_UnlessIfOnlyFirst ==
    tpl_out # None =>
        \A blocks \in PieceSeqs(SeqBlocks, MaxBlocks) :
            (blocks # <<>> /\ BlocksText(blocks) = TemplateOf(tpl_in)
                /\ ~IfOnlyBeforeIfElse(blocks))
                => EachBlockItsBranch(blocks)

(***************************************************************************)
(* Termination of the passes (checked under SpecTerm)                      *)
(***************************************************************************)
\* the number of {{/each}} closers in the text
Closers(t) == Cardinality({i \in 1..Len(t) : StartsAt(t, ENDEACH_TAG, i)})

\* the string holds neither "{{" nor "}}"
NoBraces(s) == \A i \in 1..Len(s) : ~StartsAt(s, OPEN, i) /\ ~StartsAt(s, CLOSE, i)

\* no value of the data, and no element of a list in it, holds a marker
MarkerFree(data) ==
    \A n \in 1..Len(data) :
        /\ data[n].v.type = "str" => NoBraces(data[n].v.s)
        /\ data[n].v.type = "list" =>
              \A m \in 1..Len(data[n].v.items) :
                  data[n].v.items[m].type = "str" => NoBraces(data[n].v.items[m].s)

\* C22: with data none of whose values holds a template marker, each
\* changing iteration of the conditional pass strictly shortens the
\* template and each changing iteration of the loop pass strictly reduces
\* the number of {{/each}} closers, so the loop pass has ended after at most
\* as many changing iterations as the template had closers.
C22_PassesTerminate ==
    [][ MarkerFree(tpl_run.data) =>
          /\ (tpl_run.pc = "conditionals" /\ tpl_run'.template # tpl_run.template) =>
                Len(tpl_run'.template) < Len(tpl_run.template)
          /\ (tpl_run.pc = "loops" /\ tpl_run'.template # tpl_run.template) =>
                /\ Closers(tpl_run'.template) < Closers(tpl_run.template)
                /\ tpl_run.iteration <= Closers(tpl_run.source)
      ]_vars

\* what holds for every input drawn: the conditional pass shortens
C22_ConditionalsShorten ==
    [][ (tpl_run.pc = "conditionals" /\ tpl_run'.template # tpl_run.template) =>
            Len(tpl_run'.template) < Len(tpl_run.template)
      ]_vars

\* the loop pass is in its fifth iteration on a template that had one
\* closer, and the template has grown
C22_StillLooping ==
    /\ tpl_run.pc = "loops"
    /\ MarkerFree(tpl_run.data)
    /\ Closers(tpl_run.source) = 1
    /\ tpl_run.iteration > MaxIterations
    /\ Len(tpl_run.template) > Len(tpl_run.source)
    /\ LoopRemains(tpl_run.template)

(***************************************************************************)
(* The template cache (checked under SpecCache)                            *)
(***************************************************************************)
Cached(cache, name) == \E n \in 1..Len(cache) : cache[n].k = name

OnDisk(name, content) ==
    \E n \in 1..Len(TemplateDir) : TemplateDir[n].k = name /\ TemplateDir[n].v = content

KeptAsItWas(before, after) ==
    /\ Len(before) <= Len(after)
    /\ \A n \in 1..Len(before) : after[n] = before[n]

\* C23: the template cache never holds more than template_cache_size
\* entries; a call adds at most one entry, and only the name it was asked
\* for with the content just read, after a read that succeeded while the
\* cache was below its capacity; no entry is ever removed or replaced; and
\* a name in the cache is served from it without opening the file.
C23_Cache ==
    [][ now' = now + 1 =>
        /\ Len(template_cache') <= tool_cache_size
        /\ KeptAsItWas(template_cache, template_cache')
        /\ Len(template_cache') <= Len(template_cache) + 1
        /\ Len(template_cache') = Len(template_cache) + 1 =>
              /\ template_cache'[Len(template_cache')].k = tpl_in'.s
              /\ OnDisk(tpl_in'.s, template_cache'[Len(template_cache')].v)
              /\ ~Cached(template_cache, tpl_in'.s)
              /\ Len(template_cache) < tool_cache_size
              /\ tpl_out'.opened /\ tpl_out'.raised = None
        /\ Cached(template_cache, tpl_in'.s) =>
              /\ ~tpl_out'.opened
              /\ tpl_out'.raised = None
              /\ \E n \in 1..Len(template_cache) :
                    /\ template_cache[n].k = tpl_in'.s
                    /\ template_cache[n].v = tpl_out'.value
              /\ template_cache' = template_cache
      ]_vars

\* a file was read with success while the cache was full, and was not cached
C23_FullCache ==
    /\ tool_cache_size = 1
    /\ Len(template_cache) = 1
    /\ tpl_out # None /\ tpl_out.raised = None /\ tpl_out.opened
    /\ ~Cached(template_cache, tpl_in.s)

(***************************************************************************)
(* get_execution_history (checked under SpecGet)                           *)
(***************************************************************************)
Getting == call'.kind = "get_execution_history" /\ call' # call

\* the last n records of history, oldest first
MostRecent(history, n) ==
    [i \in 1..n |-> history[Len(history) - n + i]]

AllOrMostRecent(history, limit, returned) ==
    IF limit.type = "NoneType" \/ limit.n > Len(history)
    THEN returned = history
    ELSE Len(returned) <= limit.n /\ returned = MostRecent(history, limit.n)

\* C24: get_execution_history(limit) returns at most limit records for every
\* limit >= 0, the limit most recent ones oldest first; with no limit, or
\* one larger than the history, it returns every record; and it leaves the
\* history as it was.
C24_GetHistory ==
    [][ Getting =>
        /\ AllOrMostRecent(execution_history, call'.limit, ret'.items)
        /\ execution_history' = execution_history ]_vars

\* what holds: the same for every limit but 0 on a history that has records
C24_UnlessZeroLimit ==
    [][ (Getting /\ ~(call'.limit.type = "int" /\ call'.limit.n = 0
                      /\ execution_history # <<>>)) =>
        /\ AllOrMostRecent(execution_history, call'.limit, ret'.items)
        /\ execution_history' = execution_history ]_vars

\* a call with limit 0 returned two records
C24_ZeroLimitReturnsAll ==
    /\ call.kind = "get_execution_history"
    /\ call.limit = PyInt(0)
    /\ Len(ret.items) = 2

(***************************************************************************)
(* The caller's mapping (checked under SpecAlias)                          *)
(***************************************************************************)
Redacted(input_data) ==
    \E n \in 1..Len(input_data) : input_data[n].v = PyStr(REDACTED)

\* C25: execute_tool leaves the caller's mapping as it was, with the same
\* keys and values after the call as before it, and every other mapping
\* that existed; validate_input and execute are handed the caller's own
\* mapping with its values as the caller wrote them; the mapping stored in
\* the history is another object.
C25_CallerMappingUntouched ==
    [][ now' = now + 1 =>
        /\ objects'[call'.ref] = call'.requests[1].input_data
        /\ \A ref \in 1..Len(objects) : objects'[ref] = objects[ref]
        /\ \A n \in 1..Len(call'.received) :
              /\ call'.received[n].ref = call'.ref
              /\ call'.received[n].data = call'.requests[1].input_data
        /\ call'.recorded # call'.ref
        /\ execution_history'[Len(execution_history')].input_data = objects'[call'.recorded]
      ]_vars

\* a call with a secret was validated, executed and recorded: the record is
\* redacted and the caller's mapping is not
C25_RedactedCopyOnly ==
    /\ call.kind = "execute_tool" /\ call.status = "returned"
    /\ objects # <<>>
    /\ Len(call.received) = 2
    /\ ret.status = SUCCESS
    /\ Redacted(execution_history[Len(execution_history)].input_data)
    /\ ~Redacted(objects[call.ref])
    /\ objects[call.ref] = <<[k |-> api_key, v |-> PyStr(<<"s", "k", "-", "1">>)]>>

(***************************************************************************)
(* Records of a parallel batch (checked under SpecBatch)                   *)
(***************************************************************************)
BatchRunning == call.kind = "execute_tools_parallel" /\ call.status = "running"

EndsIn(i) == tasks[i].pc # "done" /\ tasks'[i].pc = "done"

\* history with one more record, and without its oldest beyond the capacity
WithRecord(history, record) ==
    IF Len(history) < max_history_size
    THEN Append(history, record)
    ELSE Append(Tail(history), record)

\* C26: while the coroutines of execute_tools_parallel run, in any order,
\* each step leaves the history alone or appends the one record of the one
\* coroutine that ends in it; a coroutine that has ended stays as it is;
\* when the call returns, each of its k requests has its record among the
\* last k of the history, no two of them the same; and the history never
\* holds more than max_history_size (100) records.
C26_ParallelRecords ==
    [][ /\ Len(execution_history') <= max_history_size
        /\ (BatchRunning /\ call'.status = "running") =>
              /\ Len(tasks) = Len(call.requests) /\ Len(tasks') = Len(tasks)
              /\ \A i \in 1..Len(tasks) : tasks[i].pc = "done" => tasks'[i] = tasks[i]
              /\ \A i \in 1..Len(tasks), j \in 1..Len(tasks) :
                    (EndsIn(i) /\ EndsIn(j)) => i = j
              /\ \A i \in 1..Len(tasks) : EndsIn(i) =>
                    execution_history'
                        = WithRecord(execution_history,
                                     RecordOf(call.requests[i], tasks'[i].result))
              /\ (\A i \in 1..Len(tasks) : ~EndsIn(i)) =>
                    execution_history' = execution_history
        /\ (BatchRunning /\ call'.status = "returned") =>
              /\ execution_history' = execution_history
              /\ Len(execution_history) >= Len(tasks)
              /\ \A i \in 1..Len(tasks) :
                    /\ tasks[i].pc = "done"
                    /\ \E n \in (Len(execution_history) - Len(tasks) + 1)
                                    ..Len(execution_history) :
                          execution_history[n]
                              = RecordOf(call.requests[i], tasks[i].result)
              /\ \A i \in 1..Len(tasks), j \in 1..Len(tasks) :
                    i # j => tasks[i].result.id # tasks[j].result.id
      ]_vars

\* a batch of two returned with the history full, the record of its second
\* request before the record of its first
C26_FullAndOutOfOrder ==
    /\ call.kind = "execute_tools_parallel" /\ call.status = "returned"
    /\ Len(tasks) = 2
    /\ Len(execution_history) = max_history_size
    /\ execution_history[max_history_size - 1] = RecordOf(call.requests[2], tasks[2].result)
    /\ execution_history[max_history_size] = RecordOf(call.requests[1], tasks[1].result)
    /\ execution_history[1].timestamp > 1

(***************************************************************************)
(* The orchestrator's stop_agent (checked under SpecOrch)                  *)
(***************************************************************************)
Terminal == {"stopped", "completed", "failed"}

\* a step that is one call of the orchestrator's stop_agent
StopStep == now' = now + 1 /\ monitors' = monitors /\ svc_response'.op = "stop_agent"

StatusIn(table, agent_id, statuses) ==
    table[agent_id] # NoRow /\ table[agent_id].status \in statuses

\* C27: a call of stop_agent for an agent whose orchestrator status is
\* stopped, completed or failed writes to none of the three tables and
\* returns that status; and a call that succeeds leaves the orchestrator
\* status terminal, so that a second call right after it changes nothing.
C27_StopIdempotent ==
    [][ StopStep =>
        /\ StatusIn(orchestrated_agents, svc_response'.agent_id, Terminal) =>
              /\ orchestrated_agents' = orchestrated_agents
              /\ agent_states' = agent_states
              /\ agent_tasks' = agent_tasks
              /\ svc_response'.raised = None
              /\ svc_response'.returned.status
                    = orchestrated_agents[svc_response'.agent_id].status
        /\ svc_response'.raised = None =>
              StatusIn(orchestrated_agents', svc_response'.agent_id, Terminal)
      ]_vars

\* stop_agent was called for an agent that its monitor had found completed,
\* with a task still running: it reported completed and the task still runs
C27_AlreadyCompleted ==
    /\ svc_response # None /\ svc_response.op = "stop_agent"
    /\ svc_response.raised = None /\ svc_response.returned.status = "completed"
    /\ StatusIn(orchestrated_agents, svc_response.agent_id, {"completed"})
    /\ orchestrated_agents[svc_response.agent_id].updated_at # At(now)
    /\ \E task_id \in TaskIds :
          /\ agent_tasks[task_id] # NoRow
          /\ agent_tasks[task_id].agent_id = svc_response.agent_id
          /\ agent_tasks[task_id].status = "running"

Open(row, agent_id) ==
    row # NoRow /\ row.agent_id = agent_id /\ row.status \in {"running", "pending"}

\* C28: when stop_agent returns with success for an agent whose
\* orchestrator status was not terminal, the status is stopped in
\* orchestrated_agents, and in agent_states when the agent has a row there;
\* each task of the agent that was running or pending is stopped with a
\* completion time, so that none remains running or pending; every other
\* task, and every row of another agent, is as it was.
C28_StopPostcondition ==
    [][ (/\ StopStep
         /\ svc_response'.raised = None
         /\ orchestrated_agents[svc_response'.agent_id] # NoRow
         /\ ~StatusIn(orchestrated_agents, svc_response'.agent_id, Terminal)) =>
        /\ orchestrated_agents'[svc_response'.agent_id].status = "stopped"
        /\ IF agent_states[svc_response'.agent_id] = NoRow
           THEN agent_states'[svc_response'.agent_id] = NoRow
           ELSE agent_states'[svc_response'.agent_id].status = "stopped"
        /\ \A task_id \in TaskIds :
              IF Open(agent_tasks[task_id], svc_response'.agent_id)
              THEN /\ agent_tasks'[task_id].status = "stopped"
                   /\ agent_tasks'[task_id].completed_at = At(now')
                   /\ agent_tasks'[task_id].agent_id = svc_response'.agent_id
              ELSE agent_tasks'[task_id] = agent_tasks[task_id]
        /\ \A task_id \in TaskIds : ~Open(agent_tasks'[task_id], svc_response'.agent_id)
        /\ \A agent_id \in Agents \ {svc_response'.agent_id} :
              /\ orchestrated_agents'[agent_id] = orchestrated_agents[agent_id]
              /\ agent_states'[agent_id] = agent_states[agent_id]
      ]_vars

\* a1 was stopped with success: its task is stopped at the time of the
\* call, and the running task of a2 still runs
C28_StoppedWithTasks ==
    /\ svc_response # None /\ svc_response.op = "stop_agent"
    /\ svc_response.agent_id = "a1"
    /\ svc_response.raised = None
    /\ svc_response.returned.shutdown_time = At(now)
    /\ StatusIn(orchestrated_agents, "a1", {"stopped"})
    /\ StatusIn(agent_states, "a1", {"stopped"})
    /\ agent_tasks["t1"] # NoRow /\ agent_tasks["t1"].agent_id = "a1"
    /\ agent_tasks["t1"].status = "stopped" /\ agent_tasks["t1"].completed_at = At(now)
    /\ agent_tasks["t2"] # NoRow /\ agent_tasks["t2"].agent_id = "a2"
    /\ agent_tasks["t2"].status = "running"

(***************************************************************************)
(* The monitor of an agent (checked under SpecMon)                         *)
(***************************************************************************)
Polls == monitoring_duration \div check_interval

PollStep == monitors'["a1"].polls = monitors["a1"].polls + 1

\* C30: the loop of monitor_agent comes to its end in every behaviour; it
\* polls at most 360 times; a poll that finds no agent_states row ends it
\* without a write; a poll that finds the row copies its status and its
\* metrics into the orchestrated_agents row, and ends the loop exactly when
\* that status is completed, failed or stopped, the orchestrator row then
\* showing it; a loop that has ended polls no more.
C30_MonitorTerminates ==
    /\ [][ /\ PollStep =>
                /\ monitors["a1"].pc = "polling"
                /\ monitors'["a1"].polls <= 360
                /\ monitors'["a1"].polls <= Polls
                /\ IF agent_states["a1"] = NoRow
                   THEN /\ monitors'["a1"].pc = "ended"
                        /\ orchestrated_agents' = orchestrated_agents
                   ELSE /\ orchestrated_agents'["a1"].status = agent_states["a1"].status
                        /\ orchestrated_agents'["a1"].metrics = agent_states["a1"].metrics
                        /\ (monitors'["a1"].pc = "ended")
                              <=> (agent_states["a1"].status \in Terminal)
                        /\ monitors'["a1"].pc = "ended" =>
                              /\ orchestrated_agents'["a1"].status \in Terminal
                              /\ orchestrated_agents'["a1"].status
                                    = agent_states'["a1"].status
           /\ monitors["a1"].pc = "ended" => monitors'["a1"] = monitors["a1"]
         ]_vars
    /\ (monitors["a1"].pc # "none") ~> (monitors["a1"].pc = "ended")

\* the monitor made its 360 polls, the last of which found the agent
\* completed and wrote it into the orchestrator row
C30_LastPollCompleted ==
    /\ monitors["a1"] = [pc |-> "ended", polls |-> 360]
    /\ orchestrated_agents["a1"].status = "completed"
    /\ orchestrated_agents["a1"].metrics = [progress |-> 1, tasks_completed |-> 0]

(***************************************************************************)
(* Terminal statuses in the launcher (checked under SpecLauncher)          *)
(***************************************************************************)
StaysTerminal(agent_id) ==
    StatusIn(agent_states, agent_id, Terminal) => StatusIn(agent_states', agent_id, Terminal)

\* C29: once the status of an agent in agent_states is stopped, completed
\* or failed, no step of initialize_agent_process, of stop_agent or of
\* scale_agents makes it a status that is not terminal.
C29_TerminalAbsorbing ==
    [][ \A agent_id \in Agents : StaysTerminal(agent_id) ]_vars

\* what holds: the steps of the endpoints keep a terminal status; only the
\* queued initialization does not
C29_UnlessInitialization ==
    [][ init_tasks' = init_tasks => \A agent_id \in Agents : StaysTerminal(agent_id) ]_vars

\* an agent is active with the end time that stop_agent wrote
C29_ActiveAfterStopped ==
    \E agent_id \in Agents :
        /\ StatusIn(agent_states, agent_id, {"active"})
        /\ agent_states[agent_id].end_time # None
        /\ init_tasks[agent_id] = "done"

====
